---- MODULE Spec2Model ----
(***************************************************************************)
(* Model of the weekly-report analytics application: the spreadsheet       *)
(* extractor (src/weekly-report-analytics/src/lib/parseExcel.ts) and the   *)
(* automatic findings of the Insights page (src/unnamed/part_000).         *)
(*                                                                         *)
(* JavaScript values are records [t, k, n, s]: t is the typeof tag, k the  *)
(* kind of a number (finite, NaN, +Infinity, -Infinity), n the value of a  *)
(* finite number in thousandths (or 0/1 for a boolean) and s the           *)
(* characters of a string, one character per element.                      *)
(***************************************************************************)
EXTENDS Integers, Sequences, FiniteSets

VARIABLES
    calls,            \* the parseWeeklyReport calls made so far, in call order
    clock,            \* the wall clock new Date() reads
    firestoreReports, \* the documents of the reports collection, newest first
    permissions,      \* useAuth().permissions of the signed-in user, or null
    reports,          \* InsightsPage: the reports loaded
    selectedReport,   \* InsightsPage: id of the selected report, '' at first
    selectedSheet,    \* InsightsPage: name of the selected sheet, '' at first
    currentData,      \* InsightsPage: the SheetData displayed, or null
    autoInsights,     \* InsightsPage: the findings displayed
    renderedTrend,    \* DashboardPage: the weeklyTrend of the last render
    selectedFile,     \* UploadPage: the state file, or null
    uploading,        \* UploadPage: the state uploading
    success,          \* UploadPage: the state success
    uploadError,      \* UploadPage: the state error, or null
    parsedData,       \* UploadPage: the state parsedData, or null
    run,              \* UploadPage: the handleUpload call, its position and locals
    storage,          \* the objects of Firebase Storage, in upload order
    users,            \* the documents of the users collection, in creation order
    user,             \* AuthProvider: the state user, or null
    authLoading,      \* AuthProvider: the state loading
    userEmail,        \* localStorage item 'userEmail', or null
    lookup,           \* AuthProvider: the loadPermissions call in flight, or null
    loginEmail,       \* LoginPage: the state email
    loginError,       \* LoginPage: the state error
    consoleErrors,    \* what console.error has logged
    addUser           \* AdminPage of each admin session: the Add User dialog

extractorVars == <<calls, clock>>
insightsVars ==
    <<firestoreReports, permissions, reports, selectedReport, selectedSheet,
      currentData, autoInsights>>
uploadVars == <<selectedFile, uploading, success, uploadError, parsedData, run, storage>>
authVars ==
    <<users, user, authLoading, userEmail, lookup, loginEmail, loginError,
      consoleErrors, addUser>>
appVars == <<renderedTrend, uploadVars, authVars>>
vars == <<calls, clock, firestoreReports, permissions, reports, selectedReport,
          selectedSheet, currentData, autoInsights, appVars>>

----------------------------------------------------------------------------
(* JavaScript values *)

Undefined == [t |-> "undefined", k |-> "", n |-> 0, s |-> <<>>]
Null == [t |-> "null", k |-> "", n |-> 0, s |-> <<>>]
NaN == [t |-> "number", k |-> "NaN", n |-> 0, s |-> <<>>]
PosInfinity == [t |-> "number", k |-> "+Infinity", n |-> 0, s |-> <<>>]
NegInfinity == [t |-> "number", k |-> "-Infinity", n |-> 0, s |-> <<>>]
Milli(m) == [t |-> "number", k |-> "finite", n |-> m, s |-> <<>>]
Num(i) == Milli(i * 1000)
Str(chars) == [t |-> "string", k |-> "", n |-> 0, s |-> chars]
Bool(b) == [t |-> "boolean", k |-> "", n |-> IF b THEN 1 ELSE 0, s |-> <<>>]
Zero == Num(0)
EmptyString == Str(<<>>)

\* ToBoolean: undefined, null, false, 0, NaN and '' are falsy.
Truthy(v) ==
    CASE v.t = "undefined" -> FALSE
      [] v.t = "null" -> FALSE
      [] v.t = "boolean" -> v.n = 1
      [] v.t = "number" -> ~(v.k = "NaN" \/ (v.k = "finite" /\ v.n = 0))
      [] v.t = "string" -> v.s # <<>>

----------------------------------------------------------------------------
(* Characters and strings *)

Digits == {"0", "1", "2", "3", "4", "5", "6", "7", "8", "9"}

DigitVal(c) ==
    CASE c = "0" -> 0 [] c = "1" -> 1 [] c = "2" -> 2 [] c = "3" -> 3
      [] c = "4" -> 4 [] c = "5" -> 5 [] c = "6" -> 6 [] c = "7" -> 7
      [] c = "8" -> 8 [] c = "9" -> 9

DigitChar(d) ==
    CASE d = 0 -> "0" [] d = 1 -> "1" [] d = 2 -> "2" [] d = 3 -> "3"
      [] d = 4 -> "4" [] d = 5 -> "5" [] d = 6 -> "6" [] d = 7 -> "7"
      [] d = 8 -> "8" [] d = 9 -> "9"

\* The white space of the model's alphabet: space, tab, line feed and
\* no-break space (written "nbsp").  Both StrWhiteSpaceChar of parseFloat and
\* the regular expression class \s contain all of them.
WhiteSpace == {" ", "\t", "\n", "nbsp"}

Drop(s, k) == IF k >= Len(s) THEN <<>> ELSE SubSeq(s, k + 1, Len(s))
Take(s, k) == IF k >= Len(s) THEN s ELSE SubSeq(s, 1, k)

\* String.prototype.startsWith
StartsWith(s, p) == Len(s) >= Len(p) /\ SubSeq(s, 1, Len(p)) = p

\* String.prototype.includes
Includes(s, p) ==
    \E i \in 0..(Len(s) - Len(p)) : SubSeq(s, i + 1, i + Len(p)) = p

\* Length of the longest prefix of s made of characters of set cs.
RECURSIVE SpanLen(_, _)
SpanLen(s, cs) ==
    IF s = <<>> \/ Head(s) \notin cs THEN 0 ELSE 1 + SpanLen(Tail(s), cs)

RECURSIVE DigitsValue(_, _)
DigitsValue(ds, acc) ==
    IF ds = <<>> THEN acc ELSE DigitsValue(Tail(ds), acc * 10 + DigitVal(Head(ds)))

RECURSIVE Pow10(_)
Pow10(e) == IF e <= 0 THEN 1 ELSE 10 * Pow10(e - 1)

RECURSIVE NatToChars(_)
NatToChars(i) ==
    IF i < 10 THEN <<DigitChar(i)>>
    ELSE NatToChars(i \div 10) \o <<DigitChar(i % 10)>>

\* The fraction digits of m thousandths, without trailing zeros.
FracChars(f) ==
    IF f % 100 = 0 THEN <<DigitChar(f \div 100)>>
    ELSE IF f % 10 = 0 THEN <<DigitChar(f \div 100), DigitChar((f \div 10) % 10)>>
    ELSE <<DigitChar(f \div 100), DigitChar((f \div 10) % 10), DigitChar(f % 10)>>

\* Number.prototype.toString for the numbers of the model.
NumberToString(v) ==
    CASE v.k = "NaN" -> <<"N", "a", "N">>
      [] v.k = "+Infinity" -> <<"I", "n", "f", "i", "n", "i", "t", "y">>
      [] v.k = "-Infinity" -> <<"-", "I", "n", "f", "i", "n", "i", "t", "y">>
      [] v.k = "finite" ->
            LET a == IF v.n < 0 THEN -v.n ELSE v.n
                sign == IF v.n < 0 THEN <<"-">> ELSE <<>>
                frac == IF a % 1000 = 0 THEN <<>> ELSE <<".">> \o FracChars(a % 1000)
            IN  sign \o NatToChars(a \div 1000) \o frac

\* value.toString() for a value that has the method (not undefined or null).
JsToString(v) ==
    CASE v.t = "string" -> v.s
      [] v.t = "number" -> NumberToString(v)
      [] v.t = "boolean" ->
            IF v.n = 1 THEN <<"t", "r", "u", "e">> ELSE <<"f", "a", "l", "s", "e">>

----------------------------------------------------------------------------
(* parseFloat and safeNum *)

\* The value of digits [. digits] [e [sign] digits] in thousandths; fraction
\* digits beyond the third are cut off (the precision of the model).
DecimalMilli(intDs, fracDs, expo) ==
    LET m == DigitsValue(intDs, 0) * 1000
             + DigitsValue(Take(fracDs \o <<"0", "0", "0">>, 3), 0)
    IN  IF expo >= 0 THEN m * Pow10(expo) ELSE m \div Pow10(-expo)

\* parseFloat(string) takes the longest prefix of the left-trimmed string
\* that is a StrDecimalLiteral and ignores what follows it; the result is
\* NaN when there is no such prefix.  The operators below read the literal
\* part by part: exponent, fraction, integer digits, sign, white space.

\* The digits of an exponent; an e without digits is no part of the literal.
ExponentDigits(e2) == DigitsValue(Take(e2, SpanLen(e2, Digits)), 0)

SignedExponent(e1) ==
    IF e1 = <<>> THEN 0
    ELSE IF Head(e1) = "-" THEN -ExponentDigits(Tail(e1))
    ELSE IF Head(e1) = "+" THEN ExponentDigits(Tail(e1))
    ELSE ExponentDigits(e1)

ExponentOf(afterMantissa) ==
    IF afterMantissa = <<>> \/ Head(afterMantissa) \notin {"e", "E"} THEN 0
    ELSE SignedExponent(Tail(afterMantissa))

\* The number of a mantissa with its sign; NaN without any digit.
ParseMantissa(neg, intDs, fracDs, afterMantissa) ==
    IF intDs = <<>> /\ fracDs = <<>> THEN NaN
    ELSE LET Signed(mag) == Milli(IF neg THEN -mag ELSE mag)
         IN  Signed(DecimalMilli(intDs, fracDs, ExponentOf(afterMantissa)))

ParseFractionDigits(neg, intDs, afterDot, nf) ==
    ParseMantissa(neg, intDs, Take(afterDot, nf), Drop(afterDot, nf))

ParseFraction(neg, intDs, afterInt) ==
    IF afterInt # <<>> /\ Head(afterInt) = "."
    THEN ParseFractionDigits(neg, intDs, Tail(afterInt), SpanLen(Tail(afterInt), Digits))
    ELSE ParseMantissa(neg, intDs, <<>>, afterInt)

ParseDigits(neg, u, ni) == ParseFraction(neg, Take(u, ni), Drop(u, ni))

ParseUnsigned(neg, u) ==
    IF StartsWith(u, <<"I", "n", "f", "i", "n", "i", "t", "y">>)
    THEN IF neg THEN NegInfinity ELSE PosInfinity
    ELSE ParseDigits(neg, u, SpanLen(u, Digits))

ParseSigned(t) ==
    ParseUnsigned(t # <<>> /\ Head(t) = "-",
                  IF t # <<>> /\ Head(t) \in {"+", "-"} THEN Tail(t) ELSE t)

ParseFloatChars(chars) == ParseSigned(Drop(chars, SpanLen(chars, WhiteSpace)))

\* parseFloat(val): the argument is converted to a string first.
ParseFloat(v) ==
    IF v.t = "undefined" \/ v.t = "null" THEN NaN ELSE ParseFloatChars(JsToString(v))

\* isNaN(num) ? 0 : num
ZeroIfNaN(num) == IF num.k = "NaN" THEN Zero ELSE num

\* safeNum of parseRow
safeNum(val) ==
    IF val = Null \/ val = Undefined \/ val = EmptyString THEN Zero
    ELSE ZeroIfNaN(IF val.t = "number" THEN val ELSE ParseFloat(val))

----------------------------------------------------------------------------
(* Rows and parseRow *)

\* A row of the grid is the sequence of its cells; column c (0-based) is
\* element c + 1, and reading past the end of the array gives undefined.
At(row, c) == IF c < Len(row) THEN row[c + 1] ELSE Undefined

\* row[c]?.toString() || ''
TextOf(cell) ==
    IF cell = Undefined \/ cell = Null THEN EmptyString
    ELSE IF JsToString(cell) = <<>> THEN EmptyString ELSE Str(JsToString(cell))

TextColumn ==
    [fiscalYear |-> 0, periodType |-> 1, week |-> 2, status |-> 3]

NumericColumn ==
    [aoaChangePriorWeek |-> 5, aoaChangePriorYear |-> 6,
     customerChangePriorWeek |-> 7, customerChangePriorYear |-> 8,
     revenueChangePriorWeek |-> 9, revenueChangePriorYear |-> 10,
     gpChangePriorWeek |-> 11, gpChangePriorYear |-> 12,
     associatesOnAssignment |-> 14, customersBilled |-> 15,
     markupPercent |-> 16, avgHourlyPayRate |-> 17, billRatePerHour |-> 18,
     profitPerHour |-> 19, hoursPerAssociate |-> 20, associateBilling |-> 22,
     associateGrossProfit |-> 23, associateGrossProfitPercent |-> 24,
     feesRevenue |-> 25, totalSales |-> 26, grossProfit |-> 27,
     grossProfitPercent |-> 28, fullTimeEquivalent |-> 30,
     staffExcludingBDM |-> 31, associateGPperFTE |-> 34, aoasPerFTE |-> 36,
     hoursBilled |-> 40, revenuePerClient |-> 41, associateWages |-> 42,
     conversionFees |-> 44, permanentPlacementFees |-> 45, quickHire |-> 46]

TextFields == DOMAIN TextColumn
NumericFields == DOMAIN NumericColumn

parseRow(row) ==
    [f \in TextFields \cup NumericFields |->
        IF f \in TextFields THEN TextOf(At(row, TextColumn[f]))
        ELSE safeNum(At(row, NumericColumn[f]))]

----------------------------------------------------------------------------
(* parseWeeklyReport: classification of the rows of one sheet *)

\* Outcome of an expression that does not evaluate to a value.
TypeError == [t |-> "throw", k |-> "TypeError", n |-> 0, s |-> <<>>]
Threw(v) == v.t = "throw"

\* value.toString() as a method call: a TypeError on undefined and null.
CallToString(v) ==
    IF v = Undefined \/ v = Null THEN TypeError ELSE Str(JsToString(v))

Week == <<"W", "e", "e", "k">>
ThirteenWeekAverage ==
    <<"1", "3", " ", "W", "e", "e", "k", " ", "A", "v", "e", "r", "a", "g", "e">>
YTD == <<"Y", "T", "D">>

\* str.startsWith(prefix), on the outcome of a toString() call
StartsWithCall(str, prefix) ==
    IF Threw(str) THEN str ELSE Bool(StartsWith(str.s, prefix))

\* Mutant of IsWeeklyRow: the label is searched for 'Week' anywhere.
IsWeeklyRowIncludes(row) ==
    IF ~Truthy(At(row, 2)) THEN Bool(FALSE)
    ELSE Bool(Includes(CallToString(At(row, 2)).s, Week))

\* row[2] && row[2].toString().startsWith('Week')
IsWeeklyRow(row) ==
    IF ~Truthy(At(row, 2)) THEN Bool(FALSE)
    ELSE StartsWithCall(CallToString(At(row, 2)), Week)

\* Mutant of IsAverageRow: the label has to start with '13 Week Average'.
IsAverageRowStartsWith(row) ==
    IF At(row, 2) = Undefined \/ At(row, 2) = Null THEN Undefined
    ELSE Bool(StartsWith(CallToString(At(row, 2)).s, ThirteenWeekAverage))

\* row[2]?.toString().includes('13 Week Average')
IsAverageRow(row) ==
    IF At(row, 2) = Undefined \/ At(row, 2) = Null THEN Undefined
    ELSE Bool(Includes(CallToString(At(row, 2)).s, ThirteenWeekAverage))

\* Mutant of IsYtdRow: the period-type cell is not looked at.
IsYtdRowLabelOnly(row) ==
    IF At(row, 2) = Undefined \/ At(row, 2) = Null THEN Undefined
    ELSE Bool(Includes(CallToString(At(row, 2)).s, YTD))

\* row[2]?.toString().includes('YTD') || row[1] === 'YTD'
IsYtdRow(row) ==
    LET left == IF At(row, 2) = Undefined \/ At(row, 2) = Null THEN Undefined
                ELSE Bool(Includes(CallToString(At(row, 2)).s, YTD))
    IN  IF Truthy(left) THEN left ELSE Bool(At(row, 1) = Str(YTD))

FirstWeeklyRow == 8
LastWeeklyRow == 20
AverageRow == 22
YtdRow == 23

\* The outcome of a block of statements: the value it computes, or the error
\* it throws.
Ok(v) == [error |-> Undefined, value |-> v]
Fail(e) == [error |-> e, value |-> <<>>]
Failed(r) == r.error # Undefined

\* for (let i = 8; i <= 20 && i < jsonData.length; i++): the records pushed
\* from row i on, or the error thrown on the way.
RECURSIVE ScanWeekly(_, _, _)
ScanWeekly(jsonData, i, weeklyData) ==
    IF ~(i <= LastWeeklyRow /\ i < Len(jsonData)) THEN Ok(weeklyData)
    ELSE LET Body(row, test) ==
                IF Threw(test) THEN Fail(test)
                ELSE IF Truthy(test)
                     THEN ScanWeekly(jsonData, i + 1, Append(weeklyData, parseRow(row)))
                     ELSE ScanWeekly(jsonData, i + 1, weeklyData)
         IN  Body(jsonData[i + 1], IsWeeklyRow(jsonData[i + 1]))

\* Mutant of NewWeeklyData: one array shared by the iterations, so a sheet
\* starts with the records of the sheet before it.
SharedWeeklyData(sheetsSoFar) ==
    IF sheetsSoFar = <<>> THEN <<>> ELSE sheetsSoFar[Len(sheetsSoFar)].weeklyData

\* const weeklyData: WeekData[] = [] of one forEach iteration: fresh for
\* every sheet, whatever the sheets before it produced.
NewWeeklyData(sheetsSoFar) == <<>>

\* if (jsonData[22]) { ... thirteenWeekAverage = parseRow(row) }
AverageOf(jsonData) ==
    IF AverageRow < Len(jsonData) /\ Truthy(IsAverageRow(jsonData[AverageRow + 1]))
    THEN parseRow(jsonData[AverageRow + 1]) ELSE Undefined

\* if (jsonData[23]) { ... ytdData = parseRow(row) }
YtdOf(jsonData) ==
    IF YtdRow < Len(jsonData) /\ Truthy(IsYtdRow(jsonData[YtdRow + 1]))
    THEN parseRow(jsonData[YtdRow + 1]) ELSE Undefined

\* The body of workbook.SheetNames.forEach: the SheetData pushed for one
\* sheet, or the error thrown.
ExtractSheet(sheetName, jsonData, sheetsSoFar) ==
    LET Rest(scan) ==
            IF Failed(scan) THEN scan
            ELSE Ok([sheetName |-> sheetName,
                     weeklyData |-> scan.value,
                     thirteenWeekAverage |-> AverageOf(jsonData),
                     ytdData |-> YtdOf(jsonData)])
    IN  Rest(ScanWeekly(jsonData, FirstWeeklyRow, NewWeeklyData(sheetsSoFar)))

\* Mutant of ForEachSheet: a sheet without weekly records is not pushed.
RECURSIVE ForEachSheetSkipEmpty(_, _, _)
ForEachSheetSkipEmpty(wbSheets, i, sheets) ==
    IF i > Len(wbSheets) THEN Ok(sheets)
    ELSE LET Push(one) ==
                IF Failed(one) THEN one
                ELSE ForEachSheetSkipEmpty(wbSheets, i + 1,
                        IF one.value.weeklyData = <<>> THEN sheets
                        ELSE Append(sheets, one.value))
         IN  Push(ExtractSheet(wbSheets[i].name, wbSheets[i].grid, sheets))

\* workbook.SheetNames.forEach(...) on the sheets from index i on: the
\* sheets array at the end, or the error that ended the loop.
RECURSIVE ForEachSheet(_, _, _)
ForEachSheet(wbSheets, i, sheets) ==
    IF i > Len(wbSheets) THEN Ok(sheets)
    ELSE LET Push(one) ==
                IF Failed(one) THEN one
                ELSE ForEachSheet(wbSheets, i + 1, Append(sheets, one.value))
         IN  Push(ExtractSheet(wbSheets[i].name, wbSheets[i].grid, sheets))

----------------------------------------------------------------------------
(* parseWeeklyReport: the week number of the file name *)

UpperCase == <<"A", "B", "C", "D", "E", "F", "G", "H", "I", "J", "K", "L", "M",
               "N", "O", "P", "Q", "R", "S", "T", "U", "V", "W", "X", "Y", "Z">>
LowerCase == <<"a", "b", "c", "d", "e", "f", "g", "h", "i", "j", "k", "l", "m",
               "n", "o", "p", "q", "r", "s", "t", "u", "v", "w", "x", "y", "z">>

\* Mutant of Canonicalize: the i flag is missing.
CanonicalizeCaseSensitive(c) == c

\* Canonicalize of a case-insensitive regular expression: the upper case.
Canonicalize(c) ==
    IF \E i \in 1..Len(LowerCase) : LowerCase[i] = c
    THEN UpperCase[CHOOSE i \in 1..Len(LowerCase) : LowerCase[i] = c]
    ELSE c

\* The class [_\s]
SeparatorClass == {"_"} \cup WhiteSpace

\* /Week[_\s](\d+)/i matches at 1-based position i of name.
WeekPatternAt(name, i) ==
    /\ i + 5 <= Len(name)
    /\ \A j \in 0..3 : Canonicalize(name[i + j]) = Canonicalize(Week[j + 1])
    /\ name[i + 4] \in SeparatorClass
    /\ name[i + 5] \in Digits

\* file.name.match(/Week[_\s](\d+)/i): capture group 1 of the leftmost match
\* (the greedy digit run), null without a match.
weekMatch(name) ==
    IF \E i \in 1..Len(name) : WeekPatternAt(name, i)
    THEN LET i == CHOOSE k \in 1..Len(name) :
                    WeekPatternAt(name, k) /\ \A m \in 1..(k - 1) : ~WeekPatternAt(name, m)
             rest == Drop(name, i + 4)
         IN  Str(Take(rest, SpanLen(rest, Digits)))
    ELSE Null

Unknown == Str(<<"U", "n", "k", "n", "o", "w", "n">>)

\* weekMatch ? weekMatch[1] : 'Unknown'
weekNumberOf(name) ==
    LET OrUnknown(match) == IF match # Null THEN match ELSE Unknown
    IN  OrUnknown(weekMatch(name))

----------------------------------------------------------------------------
(* parseWeeklyReport: the promise and the FileReader handlers *)

Pending == [state |-> "pending", value |-> Undefined]
Fulfilled(v) == [state |-> "fulfilled", value |-> v]
Rejected(e) == [state |-> "rejected", value |-> e]

\* resolve(v) and reject(e) of the promise executor: only the first call of
\* either settles the promise.
Settle(promise, outcome) == IF promise.state = "pending" THEN outcome ELSE promise

\* The error XLSX.read throws on bytes it cannot decode.
DecodeError == [t |-> "throw", k |-> "Error", n |-> 0, s |-> <<"x", "l", "s", "x">>]

\* new Error('Failed to read file')
ReadError ==
    [t |-> "throw", k |-> "Error", n |-> 0,
     s |-> <<"F", "a", "i", "l", "e", "d", " ", "t", "o", " ", "r", "e", "a", "d", " ", "f", "i", "l", "e">>]

\* Mutant of NewSheets: one array shared by all calls, which holds the
\* sheets of the reports produced before.
RECURSIVE SharedSheets(_)
SharedSheets(earlierCalls) ==
    IF earlierCalls = <<>> THEN <<>>
    ELSE LET last == earlierCalls[Len(earlierCalls)]
             front == SharedSheets(SubSeq(earlierCalls, 1, Len(earlierCalls) - 1))
         IN  IF last.promise.state = "fulfilled" THEN front \o last.promise.value.sheets
             ELSE front

\* const sheets: SheetData[] = [] of one onload call: fresh for every call,
\* whatever the calls before it produced.
NewSheets(earlierCalls) == <<>>

\* Mutant of OnLoadCatch: the error is swallowed and the promise resolved
\* with a report without sheets.
OnLoadCatchResolves(error, file, now) ==
    Fulfilled([fileName |-> file.name, weekNumber |-> Unknown,
               uploadDate |-> now, sheets |-> <<>>])

\* catch (error) { reject(error) }
OnLoadCatch(error, file, now) == Rejected(error)

\* The try block of reader.onload and its catch: how the handler settles the
\* promise for a file read at time now.
OnLoadOutcome(file, now, earlierCalls) ==
    IF ~file.workbook.decodable THEN OnLoadCatch(DecodeError, file, now)
    ELSE LET Rest(loop) ==
                IF Failed(loop) THEN OnLoadCatch(loop.error, file, now)
                ELSE Fulfilled([fileName |-> file.name,
                                weekNumber |-> weekNumberOf(file.name),
                                uploadDate |-> now,
                                sheets |-> loop.value])
         IN  Rest(ForEachSheet(file.workbook.sheets, 1, NewSheets(earlierCalls)))

----------------------------------------------------------------------------
(* Inputs: cells, rows, grids, workbooks and files *)

\* Contents of a numeric cell: missing, null, blank, numbers, and text that
\* is a number, starts with one, or holds none.
NumCells ==
    <<Undefined, Null, EmptyString, Zero, Milli(1250500), Num(-3),
      Str(<<"4", "2">>), Str(<<"N", "/", "A">>), Str(<<"1", "2", "a", "b", "c">>),
      Str(<<"1", ",", "2", "3", "4">>), Str(<<" ", "7", ".", "2", "5", " ">>),
      Bool(TRUE), Str(<<" ", " ">>), Str(<<"-">>), Str(<<"1", "e", "2">>),
      Str(<<"$", "1", "0", "0">>), Str(<<"-", ".", "5">>), Bool(FALSE)>>

RowWidth == 47

\* A row of the given width with period-type cell period and week-label cell
\* label; the other cells go through NumCells, starting at shift.
MkRow(period, label, shift, width) ==
    [c \in 1..width |->
        CASE c = 1 -> Num(2024)
          [] c = 2 -> period
          [] c = 3 -> label
          [] c = 4 -> Str(<<"O", "p", "e", "n">>)
          [] OTHER -> NumCells[((c + shift) % Len(NumCells)) + 1]]

Weekly == Str(<<"W", "e", "e", "k", "l", "y">>)
Week1 == Str(<<"W", "e", "e", "k", " ", "1">>)
Week2 == Str(<<"W", "e", "e", "k", " ", "2">>)
Week9 == Str(<<"W", "e", "e", "k", " ", "9">>)

\* Period-type and week-label cells of the rows of the inputs.
LabelPairs ==
    {<<Weekly, Week1>>, <<Weekly, Week2>>,
     <<Weekly, Str(<<"w", "e", "e", "k", " ", "3">>)>>,
     <<Weekly, Str(<<" ", "W", "e", "e", "k", " ", "4">>)>>,
     <<Weekly, Str(<<"W", "e", "e", "k", "s", " ", "1", "-", "4">>)>>,
     <<Weekly, Num(13)>>, <<Weekly, Bool(TRUE)>>, <<Weekly, Null>>,
     <<Weekly, EmptyString>>, <<Undefined, Undefined>>,
     <<Str(ThirteenWeekAverage), Str(ThirteenWeekAverage)>>,
     <<Weekly, Str(<<"*">> \o ThirteenWeekAverage \o <<"*">>)>>,
     <<Weekly, Str(<<"1", "3", " ", "w", "e", "e", "k", " ", "a", "v", "g">>)>>,
     <<Str(YTD), Str(YTD)>>, <<Str(YTD), EmptyString>>, <<Str(YTD), Undefined>>,
     <<Str(YTD), Week1>>, <<Str(YTD \o <<" ">>), Str(<<"y", "t", "d">>)>>,
     <<Weekly, Str(<<"F", "Y", " ">> \o YTD)>>}

\* The rows placed in a grid: full rows, rows that end after the label cell
\* (missing columns), and the blank row.
SpecialRows ==
    {MkRow(pl[1], pl[2], 0, RowWidth) : pl \in LabelPairs}
    \cup {MkRow(Weekly, Week1, 7, RowWidth), MkRow(Weekly, Week2, 0, 3),
          MkRow(Str(ThirteenWeekAverage), Str(ThirteenWeekAverage), 11, RowWidth),
          MkRow(Str(YTD), Str(YTD), 5, 3), <<>>}

\* The rows a grid is filled with: blank rows, or weekly rows.
FillRows == {<<>>, MkRow(Weekly, Week9, 3, RowWidth)}

MaxRows == 25

\* The grids sheet_to_json(worksheet, {header: 1}) returns: arrays of rows,
\* every row an array of cells (a blank row is the empty array).  A grid has
\* one special row among fill rows and ends at it or has MaxRows rows.
Grids ==
    {<<>>} \cup
    UNION {{[i \in 1..len |-> IF i = pos THEN special ELSE fill] :
                len \in {pos, MaxRows}, special \in SpecialRows, fill \in FillRows} :
           pos \in 1..MaxRows}

SheetName(i) == Str(<<"S", "h", "e", "e", "t">> \o NatToChars(i))

\* Grids of the sheets of a workbook with several sheets: an empty sheet, a
\* short sheet, a sheet of rows with odd cells, and a sheet in the layout.
LayoutGrid ==
    [i \in 1..(YtdRow + 1) |->
        IF i = AverageRow + 1
        THEN MkRow(Str(ThirteenWeekAverage), Str(ThirteenWeekAverage), 2, RowWidth)
        ELSE IF i = YtdRow + 1 THEN MkRow(Str(YTD), Str(YTD), 4, RowWidth)
        ELSE IF i > FirstWeeklyRow /\ i <= LastWeeklyRow + 1
        THEN MkRow(Weekly, Str(Week \o <<" ">> \o NatToChars(i)), i, RowWidth)
        ELSE <<>>]

OddGrid ==
    [i \in 1..(YtdRow + 1) |->
        CASE i % 4 = 0 -> <<>>
          [] i % 4 = 1 -> MkRow(Undefined, Undefined, i, RowWidth)
          [] i % 4 = 2 -> MkRow(Bool(TRUE), Num(i), i, i)
          [] OTHER -> MkRow(Weekly, Week1, i, 3)]

SheetGrids == {<<>>, SubSeq(LayoutGrid, 1, FirstWeeklyRow + 2), OddGrid, LayoutGrid}

MaxSheets == 2

SheetLists ==
    UNION {{[i \in 1..n |-> [name |-> SheetName(i), grid |-> g[i]]] :
                g \in [1..n -> SheetGrids]} : n \in 1..MaxSheets}

Decodable(sheetList) == [decodable |-> TRUE, sheets |-> sheetList]
Undecodable == [decodable |-> FALSE, sheets |-> <<>>]

NameWeek37 == <<"1", "3", "W", "e", "e", "k", "R", "e", "p", "o", "r", "t", "_", "W", "e", "e", "k", "_", "3", "7", ".", "x", "l", "s", "x">>
NameReport == <<"r", "e", "p", "o", "r", "t", ".", "x", "l", "s", "x">>
NameLower == <<"w", "e", "e", "k", " ", "5", ".", "x", "l", "s">>
NameUpper == <<"W", "E", "E", "K", "_", "1", "2", "b">>
NameTab == <<"W", "e", "e", "k", "\t", "7", ".", "x", "l", "s", "x">>
NameNbsp == <<"W", "e", "e", "k", "nbsp", "8">>
NameTwoSeparators == <<"W", "e", "e", "k", "_", "_", "3">>
NameDash == <<"W", "e", "e", "k", "-", "3", ".", "x", "l", "s", "x">>
NameNoDigits == <<"W", "e", "e", "k", "_", ".", "x", "l", "s", "x">>
NameSecondPlace == <<"W", "e", "e", "k", "_", "x", " ", "w", "e", "e", "k", " ", "4", "0">>
NameBiweek == <<"b", "i", "w", "e", "e", "k", "_", "2", " ", "W", "e", "e", "k", "_", "9">>

FileNames ==
    {NameWeek37, NameReport, NameLower, NameUpper, NameTab, NameNbsp,
     NameTwoSeparators, NameDash, NameNoDigits, NameSecondPlace, NameBiweek}

\* The files of one extraction: one sheet with every grid, several sheets
\* with the sheet grids, every file name, and bytes that do not decode.
Files ==
    {[name |-> NameWeek37,
      workbook |-> Decodable(<<[name |-> SheetName(1), grid |-> g]>>)] : g \in Grids}
    \cup {[name |-> NameReport, workbook |-> Decodable(l)] : l \in SheetLists}
    \cup {[name |-> nm, workbook |-> w] :
            nm \in FileNames,
            w \in {Undecodable, Decodable(<<[name |-> SheetName(1), grid |-> LayoutGrid]>>)}}

----------------------------------------------------------------------------
(* The extractor as a state machine *)

\* A call of parseWeeklyReport: its file, the readyState of its FileReader,
\* its promise, and two counters kept for the properties: how often
\* readAsBinaryString was called and how often resolve or reject was called.
NewCall(file) ==
    [file |-> file, readyState |-> "LOADING", promise |-> Pending,
     reads |-> 1, settles |-> 0, readFailed |-> FALSE]

\* parseWeeklyReport(file): creates the promise and the reader, installs the
\* handlers and starts the read.
ParseWeeklyReport(files, maxCalls) ==
    /\ Len(calls) < maxCalls
    /\ \E file \in files : calls' = Append(calls, NewCall(file))
    /\ UNCHANGED <<clock, insightsVars, appVars>>

\* reader.onload of call c
ReaderOnLoad(c) ==
    /\ calls[c].readyState = "LOADING"
    /\ calls' = [calls EXCEPT
                    ![c].readyState = "DONE",
                    ![c].promise = Settle(@, OnLoadOutcome(calls[c].file, clock, calls)),
                    ![c].settles = @ + 1]
    /\ UNCHANGED <<clock, insightsVars, appVars>>

\* reader.onerror of call c: the file could not be read.
ReaderOnError(c) ==
    /\ calls[c].readyState = "LOADING"
    /\ calls' = [calls EXCEPT
                    ![c].readyState = "DONE",
                    ![c].promise = Settle(@, Rejected(ReadError)),
                    ![c].settles = @ + 1,
                    ![c].readFailed = TRUE]
    /\ UNCHANGED <<clock, insightsVars, appVars>>

MaxClock == 2

\* Time passes.
Tick ==
    /\ clock < MaxClock
    /\ clock' = clock + 1
    /\ UNCHANGED <<calls, insightsVars, appVars>>

\* The Upload page as mounted, with nothing in Firebase Storage.
UploadPageMounted ==
    /\ selectedFile = Null
    /\ uploading = FALSE
    /\ success = FALSE
    /\ uploadError = Null
    /\ parsedData = Null
    /\ run = Null
    /\ storage = <<>>

\* The pages that take no step in a specification: as mounted, over empty
\* collections.
OtherPages ==
    /\ renderedTrend = <<>>
    /\ UploadPageMounted
    /\ users = <<>>
    /\ user = Null
    /\ authLoading = FALSE
    /\ userEmail = Null
    /\ lookup = Null
    /\ loginEmail = <<>>
    /\ loginError = EmptyString
    /\ consoleErrors = {}
    /\ addUser = <<>>

\* The Insights page as mounted, before its reports are loaded, over an
\* empty reports collection.
InsightsPageMounted ==
    /\ reports = <<>>
    /\ selectedReport = ""
    /\ selectedSheet = EmptyString
    /\ currentData = Null
    /\ autoInsights = <<>>

Init ==
    /\ calls = <<>>
    /\ clock = 0
    /\ firestoreReports = <<>>
    /\ permissions = Null
    /\ InsightsPageMounted
    /\ OtherPages

\* One extraction of any of the files.
Next ==
    \/ ParseWeeklyReport(Files, 1)
    \/ \E c \in 1..Len(calls) : ReaderOnLoad(c)
    \/ \E c \in 1..Len(calls) : ReaderOnError(c)

Spec == Init /\ [][Next]_vars

\* Extractions that overlap: the files of the calls in flight together.
ConcurrentFiles ==
    {[name |-> NameWeek37, workbook |-> Undecodable],
     [name |-> NameReport,
      workbook |-> Decodable(<<[name |-> SheetName(1), grid |-> LayoutGrid]>>)],
     [name |-> NameWeek37,
      workbook |-> Decodable(<<[name |-> SheetName(1), grid |-> OddGrid],
                               [name |-> SheetName(2), grid |-> LayoutGrid]>>)]}

MaxCalls == 2

NextConcurrent ==
    \/ ParseWeeklyReport(ConcurrentFiles, MaxCalls)
    \/ \E c \in 1..Len(calls) : ReaderOnLoad(c)
    \/ \E c \in 1..Len(calls) : ReaderOnError(c)
    \/ Tick

SpecConcurrent == Init /\ [][NextConcurrent]_vars

----------------------------------------------------------------------------
(* Properties of the extractor *)

\* The calls whose promise is fulfilled, and the report of such a call.
FulfilledCalls == {c \in 1..Len(calls) : calls[c].promise.state = "fulfilled"}
ReportOf(c) == calls[c].promise.value
InputSheets(c) == calls[c].file.workbook.sheets

\* The sheets of call c that have a SheetData in its report.
ExtractedSheets(c) ==
    {i \in 1..Len(InputSheets(c)) : i <= Len(ReportOf(c).sheets)}

\* The text of a cell that is present (neither undefined nor null).
Present(cell) == cell # Undefined /\ cell # Null
LabelStartsWith(row, prefix) ==
    Present(At(row, 2)) /\ StartsWith(JsToString(At(row, 2)), prefix)
LabelContains(row, part) ==
    Present(At(row, 2)) /\ Includes(JsToString(At(row, 2)), part)

\* The 0-based indexes, ascending from lo to hi, of the rows of grid whose
\* week label starts with "Week".
RECURSIVE WeekIndexes(_, _, _)
WeekIndexes(grid, lo, hi) ==
    IF lo > hi THEN <<>>
    ELSE (IF lo < Len(grid) /\ LabelStartsWith(grid[lo + 1], Week) THEN <<lo>> ELSE <<>>)
         \o WeekIndexes(grid, lo + 1, hi)

\* A text cell with a character that no decimal number contains, or a
\* boolean cell: the cell is not numeric.
NumberChars == Digits \cup WhiteSpace \cup {"+", "-", ".", "e", "E"}
NonNumeric(cell) ==
    \/ cell.t = "boolean"
    \/ cell.t = "string" /\ \E i \in 1..Len(cell.s) : cell.s[i] \notin NumberChars

IsRealNumber(v) == v.t = "number" /\ v.k # "NaN"

\* Every numeric field of the record decoded from row is a number and no
\* NaN, and is 0 when its cell is missing, blank or not numeric.
NumericFieldsDefault(row, rec) ==
    \A f \in NumericFields :
        LET cell == At(row, NumericColumn[f])
        IN  /\ IsRealNumber(rec[f])
            /\ (~Present(cell) \/ cell = EmptyString \/ NonNumeric(cell)) => rec[f] = Zero

\* C1: every numeric field of every decoded row (weekly, 13-week-average,
\* YTD) is a number, never null, undefined or NaN, and is exactly 0 when its
\* source cell is missing, blank or non-numeric.
C1_NumericFieldsAreZeroByDefault ==
    \A c \in FulfilledCalls : \A i \in ExtractedSheets(c) :
        LET grid == InputSheets(c)[i].grid
            out == ReportOf(c).sheets[i]
            idx == WeekIndexes(grid, 8, 20)
        IN  /\ \A k \in 1..Len(out.weeklyData) :
                    k <= Len(idx) => NumericFieldsDefault(grid[idx[k] + 1], out.weeklyData[k])
            /\ out.thirteenWeekAverage # Undefined
                    => NumericFieldsDefault(grid[23], out.thirteenWeekAverage)
            /\ out.ytdData # Undefined => NumericFieldsDefault(grid[24], out.ytdData)

\* C2: weeklyData is exactly the decoding, in ascending row order, of the
\* rows with index 8..20 whose week label is present and starts with "Week"
\* (so rows 7 and 21 never contribute), and has at most 13 records.
C2_WeeklyDataIsTheWindow ==
    \A c \in FulfilledCalls : \A i \in ExtractedSheets(c) :
        LET grid == InputSheets(c)[i].grid
            out == ReportOf(c).sheets[i]
            idx == WeekIndexes(grid, 8, 20)
        IN  /\ out.weeklyData = [k \in 1..Len(idx) |-> parseRow(grid[idx[k] + 1])]
            /\ Len(out.weeklyData) <= 13

\* A sheet whose rows 8..20 all qualify, with a different week at row 20
\* than before it, and whose rows 7 and 21 start with "Week" too.
C2_Witness ==
    \E c \in FulfilledCalls : \E i \in ExtractedSheets(c) :
        LET grid == InputSheets(c)[i].grid
            out == ReportOf(c).sheets[i]
        IN  /\ Len(grid) > 21
            /\ LabelStartsWith(grid[8], Week) /\ LabelStartsWith(grid[22], Week)
            /\ Len(out.weeklyData) = 13
            /\ out.weeklyData[12].week = Week9
            /\ out.weeklyData[13].week = Week1

\* C3: the report of a decodable workbook has one SheetData per workbook
\* sheet, in workbook order and with the sheet's name; a sheet without a
\* weekly row is present with an empty weeklyData.
C3_OneSheetDataPerSheet ==
    \A c \in FulfilledCalls :
        /\ Len(ReportOf(c).sheets) = Len(InputSheets(c))
        /\ \A i \in ExtractedSheets(c) :
              /\ ReportOf(c).sheets[i].sheetName = InputSheets(c)[i].name
              /\ WeekIndexes(InputSheets(c)[i].grid, 8, 20) = <<>>
                    => ReportOf(c).sheets[i].weeklyData = <<>>

\* A report of two sheets whose first sheet has no weekly row and whose
\* second has some.
C3_Witness ==
    \E c \in FulfilledCalls :
        /\ Len(InputSheets(c)) = 2
        /\ Len(ReportOf(c).sheets) = 2
        /\ WeekIndexes(InputSheets(c)[1].grid, 8, 20) = <<>>
        /\ ReportOf(c).sheets[1].weeklyData = <<>>
        /\ ReportOf(c).sheets[2].weeklyData # <<>>

\* C4: thirteenWeekAverage is the decoding of row 22 when row 22 exists and
\* its week label contains "13 Week Average", and is unset otherwise.
C4_AverageIffRow22Matches ==
    \A c \in FulfilledCalls : \A i \in ExtractedSheets(c) :
        LET grid == InputSheets(c)[i].grid
            out == ReportOf(c).sheets[i]
        IN  out.thirteenWeekAverage =
                IF Len(grid) > 22 /\ LabelContains(grid[23], ThirteenWeekAverage)
                THEN parseRow(grid[23]) ELSE Undefined

\* Row 22 holds "13 Week Average" inside a longer label, among weekly rows.
C4_Witness ==
    \E c \in FulfilledCalls : \E i \in ExtractedSheets(c) :
        LET grid == InputSheets(c)[i].grid
            out == ReportOf(c).sheets[i]
        IN  /\ Len(grid) > 22
            /\ At(grid[23], 2) = Str(<<"*">> \o ThirteenWeekAverage \o <<"*">>)
            /\ out.thirteenWeekAverage # Undefined
            /\ out.thirteenWeekAverage.week = At(grid[23], 2)
            /\ out.weeklyData # <<>>

CallSafe(call) ==
    /\ call.reads = 1
    /\ call.settles <= 1
    /\ (call.promise.state = "pending") <=> (call.settles = 0)
    /\ (call.promise.state = "pending") <=> (call.readyState = "LOADING")
    /\ ~call.file.workbook.decodable => call.promise.state # "fulfilled"
    /\ call.readFailed => call.promise = Rejected(ReadError)
    /\ (~call.file.workbook.decodable /\ call.readyState = "DONE" /\ ~call.readFailed)
            => call.promise = Rejected(DecodeError)

\* C6: a call whose bytes do not decode, or whose file cannot be read, is
\* rejected with the error and never fulfilled; the file is read once (no
\* retry); resolve or reject is called at most once and a settled promise
\* never changes; an unsettled call always has its load or error event
\* still to come.
C6_FailsOnceWithTheError ==
    /\ [](\A c \in 1..Len(calls) : CallSafe(calls[c]))
    /\ [][\A c \in 1..Len(calls) :
            calls[c].promise.state # "pending" => calls'[c].promise = calls[c].promise]_vars

\* A call on bytes that do not decode has been rejected with the error of
\* the decoder.
C6_Witness ==
    \E c \in 1..Len(calls) :
        /\ ~calls[c].file.workbook.decodable
        /\ calls[c].promise = Rejected(DecodeError)
        /\ calls[c].settles = 1

\* The SheetData of a sheet extracted from a workbook that holds it alone.
ExtractedAlone(sheet) == ForEachSheet(<<sheet>>, 1, <<>>).value[1]

\* C7: once the bytes of a decodable workbook are read, the call is
\* fulfilled whatever the sheets hold, and every sheet of the report is what
\* the sheet gives when extracted on its own.
C7_NoLayoutFailsTheExtraction ==
    \A c \in 1..Len(calls) :
        (calls[c].file.workbook.decodable /\ calls[c].readyState = "DONE"
            /\ ~calls[c].readFailed)
        => /\ calls[c].promise.state = "fulfilled"
           /\ Len(ReportOf(c).sheets) = Len(InputSheets(c))
           /\ \A i \in 1..Len(InputSheets(c)) :
                ReportOf(c).sheets[i] = ExtractedAlone(InputSheets(c)[i])

\* A report of two sheets: one with blank rows, rows without label and
\* short rows, the other with weekly records.
C7_Witness ==
    \E c \in FulfilledCalls :
        /\ Len(ReportOf(c).sheets) = 2
        /\ \E i, j \in 1..2 :
              /\ i # j
              /\ InputSheets(c)[i].grid = OddGrid
              /\ Len(ReportOf(c).sheets[i].weeklyData) < 13
              /\ Len(ReportOf(c).sheets[j].weeklyData) = 13

\* "Week" in any letter case, one of the separators and a digit at 1-based
\* position i of name.
WeekPlace(name, i, separators) ==
    /\ i + 5 <= Len(name)
    /\ name[i] \in {"W", "w"} /\ name[i + 1] \in {"E", "e"}
    /\ name[i + 2] \in {"E", "e"} /\ name[i + 3] \in {"K", "k"}
    /\ name[i + 4] \in separators
    /\ name[i + 5] \in Digits

\* The digit run of the first such place, "Unknown" without one.
WeekNumberByPlace(name, separators) ==
    LET places == {i \in 1..Len(name) : WeekPlace(name, i, separators)}
    IN  IF places = {} THEN Unknown
        ELSE LET first == CHOOSE i \in places : \A j \in places : i <= j
                 rest == Drop(name, first + 4)
             IN  Str(Take(rest, SpanLen(rest, Digits)))

\* C8 as stated: weekNumber is the digit run of the first place where
\* "Week" (any letter case) is followed by one space or underscore and then
\* digits, and "Unknown" without such a place.
C8_WeekNumberAfterSpaceOrUnderscore ==
    \A c \in FulfilledCalls :
        ReportOf(c).weekNumber = WeekNumberByPlace(calls[c].file.name, {" ", "_"})

\* C8 amended: the separator is one white-space character (space, tab, line
\* break, no-break space) or underscore.
C8_WeekNumberAfterWhiteSpaceOrUnderscore ==
    \A c \in FulfilledCalls :
        ReportOf(c).weekNumber =
            WeekNumberByPlace(calls[c].file.name, WhiteSpace \cup {"_"})

\* The report of a file name with a tab between "Week" and the digits.
C8_Witness ==
    \E c \in FulfilledCalls :
        calls[c].file.name = NameTab /\ ReportOf(c).weekNumber = Str(<<"7">>)

----------------------------------------------------------------------------
(* Arithmetic of generateAutoInsights *)

\* The result of an arithmetic expression: an exact fraction num / den with
\* den > 0, NaN, or an infinity.  The numbers of a WeekData are fractions
\* with den = 1000.
RECURSIVE Gcd(_, _)
Gcd(a, b) == IF b = 0 THEN a ELSE Gcd(b, a % b)

Abs(i) == IF i < 0 THEN -i ELSE i

\* The fraction num / den in lowest terms.
Frac(num, den) ==
    LET g == Gcd(Abs(num), den)
    IN  [k |-> "finite", num |-> num \div g, den |-> den \div g]
NotANumber == [k |-> "NaN", num |-> 0, den |-> 1]
Infinite(positive) ==
    [k |-> IF positive THEN "+Infinity" ELSE "-Infinity", num |-> 0, den |-> 1]
OfValue(v) == IF v.k = "finite" THEN Frac(v.n, 1000) ELSE [k |-> v.k, num |-> 0, den |-> 1]

Sign(x) ==
    CASE x.k = "+Infinity" -> 1
      [] x.k = "-Infinity" -> -1
      [] x.k = "finite" -> IF x.num > 0 THEN 1 ELSE IF x.num < 0 THEN -1 ELSE 0
      [] OTHER -> 0

\* a - b
Minus(a, b) ==
    CASE a.k = "NaN" \/ b.k = "NaN" -> NotANumber
      [] a.k = "finite" /\ b.k = "finite" ->
            LET g == Gcd(a.den, b.den)
            IN  Frac(a.num * (b.den \div g) - b.num * (a.den \div g),
                     a.den * (b.den \div g))
      [] a.k = "finite" -> Infinite(b.k = "-Infinity")
      [] b.k = "finite" -> a
      [] OTHER -> IF a.k = b.k THEN NotANumber ELSE a

\* a / b, for a divisor that is not a negative zero
Over(a, b) ==
    CASE a.k = "NaN" \/ b.k = "NaN" -> NotANumber
      [] a.k = "finite" /\ b.k = "finite" ->
            IF b.num = 0
            THEN IF a.num = 0 THEN NotANumber ELSE Infinite(a.num > 0)
            ELSE LET gn == Gcd(Abs(a.num), Abs(b.num))
                     gd == Gcd(a.den, b.den)
                 IN  IF a.num = 0 THEN Frac(0, 1)
                     ELSE Frac((a.num \div gn) * (b.den \div gd) * Sign(b),
                               (a.den \div gd) * (Abs(b.num) \div gn))
      [] a.k = "finite" -> Frac(0, 1)
      [] b.k = "finite" -> Infinite((Sign(a) > 0) = (b.num >= 0))
      [] OTHER -> NotANumber

\* Mutant of Times100: the factor 100 is left out.
Times100Forgotten(a) == a

\* a * 100
Times100(a) == IF a.k = "finite" THEN Frac(a.num * 100, a.den) ELSE a

\* Math.abs(a) > num / den: false for NaN
AbsExceeds(a, num, den) ==
    CASE a.k = "NaN" -> FALSE
      [] a.k = "finite" -> Abs(a.num) * den > num * a.den
      [] OTHER -> TRUE

\* a > 0: false for NaN
IsPositive(a) == Sign(a) > 0

----------------------------------------------------------------------------
(* InsightsPage.generateAutoInsights *)

\* An Insight, without its description and value texts.
Insight(type, title, metric) == [type |-> type, title |-> title, metric |-> metric]

\* Mutant of latestWeekOf: the last record is taken for the latest week.
lastWeekOf(sheet) ==
    IF sheet.weeklyData = <<>> THEN Undefined
    ELSE sheet.weeklyData[Len(sheet.weeklyData)]

\* Mutant of latestWeekOf: the record before the latest one is taken.
latestWeekOfSecond(sheet) ==
    IF Len(sheet.weeklyData) >= 2 THEN sheet.weeklyData[2] ELSE Undefined

\* const latestWeek = sheet.weeklyData[0]
latestWeekOf(sheet) ==
    IF Len(sheet.weeklyData) >= 1 THEN sheet.weeklyData[1] ELSE Undefined

\* const previousWeek = sheet.weeklyData[1]
previousWeekOf(sheet) ==
    IF Len(sheet.weeklyData) >= 2 THEN sheet.weeklyData[2] ELSE Undefined

\* Mutant of RevenueInsight: a change of 5 percent is reported too.
RevenueInsightAtLeast(latestWeek, previousWeek) ==
    LET Push(revChange) ==
            IF AbsExceeds(revChange, 5, 1) \/ revChange \in {Frac(5, 1), Frac(-5, 1)}
            THEN <<Insight(IF IsPositive(revChange) THEN "positive" ELSE "negative",
                           IF IsPositive(revChange) THEN "Revenue Growth"
                           ELSE "Revenue Decline",
                           "Revenue")>>
            ELSE <<>>
    IN  Push(Times100(Over(Minus(OfValue(latestWeek.totalSales),
                                 OfValue(previousWeek.totalSales)),
                           OfValue(previousWeek.totalSales))))

\* Revenue trend
RevenueInsight(latestWeek, previousWeek) ==
    LET Push(revChange) ==
            IF AbsExceeds(revChange, 5, 1)
            THEN <<Insight(IF IsPositive(revChange) THEN "positive" ELSE "negative",
                           IF IsPositive(revChange) THEN "Revenue Growth"
                           ELSE "Revenue Decline",
                           "Revenue")>>
            ELSE <<>>
    IN  Push(Times100(Over(Minus(OfValue(latestWeek.totalSales),
                                 OfValue(previousWeek.totalSales)),
                           OfValue(previousWeek.totalSales))))

\* Mutant of MarginInsight: a movement of 0.5 points is reported too.
MarginInsightAtLeast(latestWeek, previousWeek) ==
    LET Push(gpChange) ==
            IF AbsExceeds(gpChange, 1, 2) \/ gpChange \in {Frac(1, 2), Frac(-1, 2)}
            THEN <<Insight(IF IsPositive(gpChange) THEN "positive" ELSE "negative",
                           "Margin Movement", "GP%")>>
            ELSE <<>>
    IN  Push(Times100(Minus(OfValue(latestWeek.grossProfitPercent),
                            OfValue(previousWeek.grossProfitPercent))))

\* GP% movement
MarginInsight(latestWeek, previousWeek) ==
    LET Push(gpChange) ==
            IF AbsExceeds(gpChange, 1, 2)
            THEN <<Insight(IF IsPositive(gpChange) THEN "positive" ELSE "negative",
                           "Margin Movement", "GP%")>>
            ELSE <<>>
    IN  Push(Times100(Minus(OfValue(latestWeek.grossProfitPercent),
                            OfValue(previousWeek.grossProfitPercent))))

\* Mutant of StaffingInsight: the finding is positive whatever the direction.
StaffingInsightAlwaysPositive(latestWeek, previousWeek) ==
    LET Push(aoaChange) ==
            IF AbsExceeds(aoaChange, 20, 1)
            THEN <<Insight("positive", "Staffing Changes", "AOA")>>
            ELSE <<>>
    IN  Push(Minus(OfValue(latestWeek.associatesOnAssignment),
                   OfValue(previousWeek.associatesOnAssignment)))

\* AOA changes
StaffingInsight(latestWeek, previousWeek) ==
    LET Push(aoaChange) ==
            IF AbsExceeds(aoaChange, 20, 1)
            THEN <<Insight(IF IsPositive(aoaChange) THEN "positive" ELSE "negative",
                           "Staffing Changes", "AOA")>>
            ELSE <<>>
    IN  Push(Minus(OfValue(latestWeek.associatesOnAssignment),
                   OfValue(previousWeek.associatesOnAssignment)))

\* Mutant of ProductivityInsight: a decline is classified negative.
ProductivityInsightNegative(latestWeek, previousWeek) ==
    LET Push(efficiencyChange) ==
            IF AbsExceeds(efficiencyChange, 5, 1)
            THEN <<Insight(IF IsPositive(efficiencyChange) THEN "positive" ELSE "negative",
                           "Productivity Shift", "Rev/AOA")>>
            ELSE <<>>
        Change(revenuePerAOA, prevRevenuePerAOA) ==
            Times100(Over(Minus(revenuePerAOA, prevRevenuePerAOA), prevRevenuePerAOA))
    IN  Push(Change(Over(OfValue(latestWeek.totalSales),
                         OfValue(latestWeek.associatesOnAssignment)),
                    Over(OfValue(previousWeek.totalSales),
                         OfValue(previousWeek.associatesOnAssignment))))

\* Efficiency check
ProductivityInsight(latestWeek, previousWeek) ==
    LET Push(efficiencyChange) ==
            IF AbsExceeds(efficiencyChange, 5, 1)
            THEN <<Insight(IF IsPositive(efficiencyChange) THEN "positive" ELSE "neutral",
                           "Productivity Shift", "Rev/AOA")>>
            ELSE <<>>
        Change(revenuePerAOA, prevRevenuePerAOA) ==
            Times100(Over(Minus(revenuePerAOA, prevRevenuePerAOA), prevRevenuePerAOA))
    IN  Push(Change(Over(OfValue(latestWeek.totalSales),
                         OfValue(latestWeek.associatesOnAssignment)),
                    Over(OfValue(previousWeek.totalSales),
                         OfValue(previousWeek.associatesOnAssignment))))

\* Mutant of InsightsOf: the productivity finding is put first.
InsightsOfProductivityFirst(latestWeek, previousWeek) ==
    ProductivityInsight(latestWeek, previousWeek)
    \o RevenueInsight(latestWeek, previousWeek)
    \o MarginInsight(latestWeek, previousWeek)
    \o StaffingInsight(latestWeek, previousWeek)

\* The insights pushed for a latest and a previous week.
InsightsOf(latestWeek, previousWeek) ==
    RevenueInsight(latestWeek, previousWeek)
    \o MarginInsight(latestWeek, previousWeek)
    \o StaffingInsight(latestWeek, previousWeek)
    \o ProductivityInsight(latestWeek, previousWeek)

\* generateAutoInsights(sheet): the list given to setAutoInsights.
generateAutoInsights(sheet) ==
    LET latestWeek == latestWeekOf(sheet)
        previousWeek == previousWeekOf(sheet)
    IN  IF latestWeek = Undefined \/ previousWeek = Undefined THEN <<>>
        ELSE InsightsOf(latestWeek, previousWeek)

----------------------------------------------------------------------------
(* InsightsPage as a state machine *)

\* A weekly row with the three cells generateAutoInsights reads.
InsightRow(label, sales, margin, aoa) ==
    [c \in 1..RowWidth |->
        CASE c = 2 -> Weekly
          [] c = 3 -> label
          [] c = 15 -> aoa
          [] c = 27 -> sales
          [] c = 29 -> margin
          [] OTHER -> Zero]

\* Total sales, gross-profit percent (a fraction) and associates on
\* assignment of the weeks of the stored reports.
InsightWeeks ==
    {<<Num(100000), Milli(300), Num(100)>>, <<Num(140000), Milli(357), Num(100)>>,
     <<Num(105000), Milli(305), Num(121)>>, <<Zero, Zero, Zero>>}

MaxWeeks == 3

\* The grid of a sheet in the layout: the weeks from row 8 on, the average
\* in row 22 and the YTD row in row 23 when the sheet has them.
InsightGrid(weeks, hasAverage, hasYtd) ==
    [i \in 1..(YtdRow + 1) |->
        IF i > FirstWeeklyRow /\ i <= FirstWeeklyRow + Len(weeks)
        THEN InsightRow(Str(Week \o <<" ">> \o NatToChars(i)),
                        weeks[i - FirstWeeklyRow][1], weeks[i - FirstWeeklyRow][2],
                        weeks[i - FirstWeeklyRow][3])
        ELSE IF i = AverageRow + 1 /\ hasAverage
        THEN InsightRow(Str(ThirteenWeekAverage), Num(120000), Milli(310), Num(110))
        ELSE IF i = YtdRow + 1 /\ hasYtd
        THEN InsightRow(Str(YTD), Num(2000000), Milli(320), Num(105))
        ELSE <<>>]

\* The SheetData the extractor gives for such a sheet.
InsightSheet(i, weeks, hasAverage, hasYtd) ==
    ExtractedAlone([name |-> SheetName(i), grid |-> InsightGrid(weeks, hasAverage, hasYtd)])

WeekLists == UNION {[1..n -> InsightWeeks] : n \in 0..MaxWeeks}

\* The reports collection: a report of two sheets, the first with any weeks
\* or with a latest and a previous week at and around the thresholds of the
\* findings, and a newer report of one sheet.
StoredReports ==
    {<<[id |-> "r2",
        parsedData |-> <<InsightSheet(1, <<<<Num(105000), Milli(305), Num(121)>>,
                                          <<Num(140000), Milli(357), Num(100)>>>>,
                                      TRUE, FALSE)>>],
       [id |-> "r1",
        parsedData |-> <<InsightSheet(1, weeks, hasAverage, hasYtd),
                         InsightSheet(2, <<<<Num(140000), Milli(357), Num(100)>>,
                                          <<Num(100000), Milli(300), Num(100)>>>>,
                                      FALSE, TRUE)>>]>> :
        weeks \in WeekLists, hasAverage \in BOOLEAN, hasYtd \in BOOLEAN}
    \cup
    {<<[id |-> "r1",
        parsedData |-> <<InsightSheet(1, <<latest, previous>>, FALSE, FALSE)>>]>> :
        latest \in {<<Num(105000), Milli(305), Num(120)>>,
                    <<Num(105010), Milli(306), Num(121)>>,
                    <<Num(94990), Milli(294), Num(79)>>,
                    <<Num(95000), Milli(295), Num(80)>>,
                    <<Num(105000), Milli(300), Num(100)>>,
                    <<Num(105010), Milli(300), Num(100)>>,
                    <<Num(140000), Milli(357), Zero>>,
                    <<Num(140000), Milli(357), Num(14)>>,
                    <<Num(140000), Milli(357), Num(100)>>},
        previous \in {<<Num(100000), Milli(300), Num(100)>>,
                      <<Num(100000), Milli(300), Zero>>,
                      <<Num(100000), Milli(300), Num(10)>>}}

\* permissions of useAuth(): none, an administrator, a user with one sheet.
PermissionsOfUsers ==
    {Null,
     [role |-> "admin", allowedSheets |-> <<>>],
     [role |-> "user", allowedSheets |-> <<SheetName(1)>>]}

ReportLimit == 20

\* reports.find(r => r.id === selectedReport)?.parsedData, [] when not found
ParsedDataOf(reps, id) ==
    IF \E k \in 1..Len(reps) : reps[k].id = id
    THEN reps[CHOOSE k \in 1..Len(reps) :
                reps[k].id = id /\ \A m \in 1..(k - 1) : reps[m].id # id].parsedData
    ELSE <<>>

\* permissions?.role === 'admin' || permissions?.allowedSheets.includes(name)
MayAccess(perm, name) ==
    /\ perm # Null
    /\ \/ perm.role = "admin"
       \/ \E k \in 1..Len(perm.allowedSheets) : perm.allowedSheets[k] = name

\* availableSheets: the names offered by the sheet selector
AvailableSheetNames ==
    {ParsedDataOf(reports, selectedReport)[k].sheetName :
        k \in {m \in 1..Len(ParsedDataOf(reports, selectedReport)) :
                MayAccess(permissions,
                          ParsedDataOf(reports, selectedReport)[m].sheetName)}}

\* The effect on [selectedSheet, selectedReport, reports]: the sheet found
\* for the selection is displayed and analysed; without one nothing is set.
SelectionEffect(reps, report, sheetName) ==
    LET data == ParsedDataOf(reps, report)
        found == {k \in 1..Len(data) : data[k].sheetName = sheetName}
    IN  IF report # "" /\ sheetName # EmptyString /\ found # {}
        THEN LET sheet == data[CHOOSE k \in found : \A m \in found : k <= m]
             IN  /\ currentData' = sheet
                 /\ autoInsights' = generateAutoInsights(sheet)
        ELSE UNCHANGED <<currentData, autoInsights>>

\* loadReports: the newest reports are loaded and the first is selected.
LoadReports ==
    /\ reports = <<>>
    /\ firestoreReports # <<>>
    /\ reports' = Take(firestoreReports, ReportLimit)
    /\ selectedReport' = firestoreReports[1].id
    /\ SelectionEffect(reports', selectedReport', selectedSheet)
    /\ UNCHANGED <<extractorVars, appVars, firestoreReports, permissions, selectedSheet>>

\* The user picks a report in the report selector.
SelectReport(id) ==
    /\ \E k \in 1..Len(reports) : reports[k].id = id
    /\ selectedReport' = id
    /\ SelectionEffect(reports, id, selectedSheet)
    /\ UNCHANGED <<extractorVars, appVars, firestoreReports, permissions, reports, selectedSheet>>

\* The user picks a sheet in the sheet selector.
SelectSheet(name) ==
    /\ name \in AvailableSheetNames
    /\ selectedSheet' = name
    /\ SelectionEffect(reports, selectedReport, name)
    /\ UNCHANGED <<extractorVars, appVars, firestoreReports, permissions, reports, selectedReport>>

InitInsights ==
    /\ calls = <<>>
    /\ clock = 0
    /\ firestoreReports \in StoredReports
    /\ permissions \in PermissionsOfUsers
    /\ InsightsPageMounted
    /\ OtherPages

NextInsights ==
    \/ LoadReports
    \/ \E id \in {"r1", "r2"} : SelectReport(id)
    \/ \E name \in {SheetName(1), SheetName(2)} : SelectSheet(name)

SpecInsights == InitInsights /\ [][NextInsights]_vars

\* C10: the findings displayed for a sheet with fewer than two weekly
\* records are empty, whatever its 13-week average and YTD record; with two
\* or more they are the findings of weeklyData[0] as latest week and
\* weeklyData[1] as previous week.
C10_InsightsNeedTwoWeeks ==
    currentData # Null =>
        autoInsights =
            IF Len(currentData.weeklyData) < 2 THEN <<>>
            ELSE InsightsOf(currentData.weeklyData[1], currentData.weeklyData[2])

\* A sheet with one weekly record, an average and a YTD record is displayed
\* without findings.
C10_Witness ==
    /\ currentData # Null
    /\ Len(currentData.weeklyData) = 1
    /\ currentData.thirteenWeekAverage # Undefined
    /\ currentData.ytdData # Undefined
    /\ autoInsights = <<>>

----------------------------------------------------------------------------
(* Properties of the findings of generateAutoInsights *)

\* A sheet with two weekly records or more is displayed.
TwoWeeks == currentData # Null /\ Len(currentData.weeklyData) >= 2

\* A field of the latest and of the previous week displayed, in whole units
\* (the sales and the head counts of the stored reports are whole numbers).
LatestWhole(f) == currentData.weeklyData[1][f].n \div 1000
PreviousWhole(f) == currentData.weeklyData[2][f].n \div 1000

\* The types of the findings displayed for a metric, in their order.
TypesOf(metric) ==
    LET found == SelectSeq(autoInsights, LAMBDA f : f.metric = metric)
    IN  [i \in 1..Len(found) |-> found[i].type]

\* The types of the one finding due when exceeds holds, positive or other by
\* the direction.
Due(exceeds, up, other) ==
    IF exceeds THEN <<IF up THEN "positive" ELSE other>> ELSE <<>>

\* C11: with two weekly records and previous sales that are not 0, there is
\* one revenue finding when |(latest - previous) / previous| x 100 > 5,
\* positive for a rise and negative for a fall, and none otherwise (none at
\* exactly 5 percent).
C11_RevenueFindingAboveFivePercent ==
    (TwoWeeks /\ PreviousWhole("totalSales") # 0) =>
        TypesOf("Revenue") =
            Due(Abs(LatestWhole("totalSales") - PreviousWhole("totalSales")) * 100
                    > 5 * Abs(PreviousWhole("totalSales")),
                (LatestWhole("totalSales") > PreviousWhole("totalSales"))
                    = (PreviousWhole("totalSales") > 0),
                "negative")

\* Sales rose by 5.01 percent and a positive revenue finding is displayed.
C11_Witness ==
    /\ TwoWeeks
    /\ LatestWhole("totalSales") = 105010 /\ PreviousWhole("totalSales") = 100000
    /\ TypesOf("Revenue") = <<"positive">>

C13_StaffingFindingAboveTwenty ==
    TwoWeeks =>
        TypesOf("AOA") =
            Due(Abs(LatestWhole("associatesOnAssignment")
                        - PreviousWhole("associatesOnAssignment")) > 20,
                LatestWhole("associatesOnAssignment")
                    > PreviousWhole("associatesOnAssignment"),
                "negative")

\* The head count fell by 21 and a negative staffing finding is displayed.
C13_Witness ==
    /\ TwoWeeks
    /\ LatestWhole("associatesOnAssignment") = 79
    /\ PreviousWhole("associatesOnAssignment") = 100
    /\ TypesOf("AOA") = <<"negative">>

\* latest.totalSales / latest.associatesOnAssignment minus the same
\* ratio of the previous week, over that ratio: the numerator and the
\* denominator of the fraction, when no divisor is 0.
RatioChangeNum ==
    LatestWhole("totalSales") * PreviousWhole("associatesOnAssignment")
        - PreviousWhole("totalSales") * LatestWhole("associatesOnAssignment")
RatioChangeDen == LatestWhole("associatesOnAssignment") * PreviousWhole("totalSales")

\* C14: with two weekly records (and no divisor 0) there is one
\* productivity finding when the percent change of totalSales /
\* associatesOnAssignment exceeds 5 in absolute value, positive for a rise
\* and neutral for a fall, and none otherwise; no productivity finding is
\* ever negative.
C14_ProductivityFindingPositiveOrNeutral ==
    /\ \A i \in 1..Len(TypesOf("Rev/AOA")) : TypesOf("Rev/AOA")[i] # "negative"
    /\ (TwoWeeks /\ RatioChangeDen # 0 /\ PreviousWhole("associatesOnAssignment") # 0) =>
            TypesOf("Rev/AOA") =
                Due(Abs(RatioChangeNum) * 20 > Abs(RatioChangeDen),
                    (RatioChangeNum > 0) = (RatioChangeDen > 0),
                    "neutral")

\* Sales per associate fell by 12.5 percent and a neutral productivity
\* finding is displayed.
C14_Witness ==
    /\ TwoWeeks
    /\ LatestWhole("totalSales") = 105000 /\ LatestWhole("associatesOnAssignment") = 120
    /\ PreviousWhole("totalSales") = 100000 /\ PreviousWhole("associatesOnAssignment") = 100
    /\ TypesOf("Rev/AOA") = <<"neutral">>

\* The place of a metric in the order revenue, margin, staffing,
\* productivity.
MetricOrder == <<"Revenue", "GP%", "AOA", "Rev/AOA">>
PlaceOf(metric) == CHOOSE k \in 1..Len(MetricOrder) : MetricOrder[k] = metric

\* C15: the findings displayed are a subsequence of (revenue, margin,
\* staffing, productivity): every kind at most once, in that order, four at
\* most.
C15_FindingsInFixedOrder ==
    /\ Len(autoInsights) <= 4
    /\ \A i \in 1..Len(autoInsights) :
            \E k \in 1..Len(MetricOrder) : autoInsights[i].metric = MetricOrder[k]
    /\ \A i, j \in 1..Len(autoInsights) :
            i < j => PlaceOf(autoInsights[i].metric) < PlaceOf(autoInsights[j].metric)

\* All four findings are displayed, for a productivity change (13.2 percent)
\* greater than the revenue change (5.01 percent).
C15_Witness ==
    /\ TwoWeeks
    /\ LatestWhole("totalSales") = 105010 /\ PreviousWhole("totalSales") = 100000
    /\ LatestWhole("associatesOnAssignment") = 121
    /\ PreviousWhole("associatesOnAssignment") = 100
    /\ [i \in 1..Len(autoInsights) |-> autoInsights[i].metric] = MetricOrder

\* The sheet of the example: sales 140000 after 100000, margin 0.357 after
\* 0.30.
ExampleSheet ==
    /\ currentData # Null
    /\ Len(currentData.weeklyData) = 2
    /\ currentData.weeklyData[1].totalSales = Num(140000)
    /\ currentData.weeklyData[2].totalSales = Num(100000)
    /\ currentData.weeklyData[1].grossProfitPercent = Milli(357)
    /\ currentData.weeklyData[2].grossProfitPercent = Milli(300)

FindingsDisplayed == [i \in 1..Len(autoInsights) |-> <<autoInsights[i].type, autoInsights[i].metric>>]

\* C16 as stated: for the sheet of the example exactly two findings are
\* displayed, a positive revenue finding and then a positive margin finding.
C16_ExampleGivesTwoFindings ==
    ExampleSheet => FindingsDisplayed = <<<<"positive", "Revenue">>, <<"positive", "GP%">>>>

\* C16 amended: for the sheet of the example a positive revenue finding and
\* then a positive margin finding are displayed first; they are the only
\* findings when associatesOnAssignment is 0 in both weeks, and a positive
\* productivity finding follows them when it is the same non-zero count in
\* both weeks.
C16_ExampleGivesTwoFindingsWithoutHeadCount ==
    ExampleSheet =>
        /\ Len(FindingsDisplayed) >= 2
        /\ SubSeq(FindingsDisplayed, 1, 2) = <<<<"positive", "Revenue">>, <<"positive", "GP%">>>>
        /\ (LatestWhole("associatesOnAssignment") = 0
                /\ PreviousWhole("associatesOnAssignment") = 0)
            => Len(FindingsDisplayed) = 2
        /\ (LatestWhole("associatesOnAssignment") = PreviousWhole("associatesOnAssignment")
                /\ PreviousWhole("associatesOnAssignment") # 0)
            => FindingsDisplayed[Len(FindingsDisplayed)] = <<"positive", "Rev/AOA">>

\* The sheet of the example without head counts, with its two findings.
C16_Witness ==
    /\ ExampleSheet
    /\ LatestWhole("associatesOnAssignment") = 0
    /\ PreviousWhole("associatesOnAssignment") = 0
    /\ Len(autoInsights) = 2

----------------------------------------------------------------------------
(* DashboardPage.calculateInsights *)

\* a + b
Plus(a, b) ==
    CASE a.k = "NaN" \/ b.k = "NaN" -> NotANumber
      [] a.k = "finite" /\ b.k = "finite" ->
            LET g == Gcd(a.den, b.den)
            IN  Frac(a.num * (b.den \div g) + b.num * (a.den \div g),
                     a.den * (b.den \div g))
      [] a.k = "finite" -> b
      [] b.k = "finite" -> a
      [] OTHER -> IF a.k = b.k THEN a ELSE NotANumber

\* Math.pow(a, 2)
Squared(a) ==
    CASE a.k = "NaN" -> NotANumber
      [] a.k = "finite" -> Frac(a.num * a.num, a.den * a.den)
      [] OTHER -> Infinite(TRUE)

\* Math.sqrt(a).  The root of a positive fraction is kept exactly, as the
\* record [k |-> "root", num, den]: the positive square root of num / den.
Sqrt(a) ==
    CASE a.k = "NaN" \/ a.k = "-Infinity" -> NotANumber
      [] a.k = "+Infinity" -> a
      [] a.k = "finite" /\ a.num < 0 -> NotANumber
      [] a.k = "finite" /\ a.num = 0 -> a
      [] OTHER -> [a EXCEPT !.k = "root"]

\* r * (num / den) for a result r of Math.sqrt and num / den > 0
RootTimes(r, num, den) ==
    IF r.k = "root"
    THEN [Frac(r.num * num * num, r.den * den * den) EXCEPT !.k = "root"]
    ELSE r

\* values.reduce((sum, v) => sum + v, sum), from the value at i on
RECURSIVE Reduce(_, _, _)
Reduce(values, i, sum) ==
    IF i > Len(values) THEN sum ELSE Reduce(values, i + 1, Plus(sum, values[i]))

\* Mutant of weeklyTrendOf: every weekly record is taken.
weeklyTrendOfAll(data) ==
    [i \in 1..Len(data.weeklyData) |-> data.weeklyData[Len(data.weeklyData) + 1 - i]]

\* currentData?.weeklyData.slice(0, 13).reverse()
weeklyTrendOf(data) ==
    LET Reverse(s) == [i \in 1..Len(s) |-> s[Len(s) + 1 - i]]
    IN  Reverse(Take(data.weeklyData, 13))

\* Mutant of revenueGrowthRateOf: a missing previous week counts as a week
\* without sales.
revenueGrowthRateOfNoSales(latestWeek, previousWeek) ==
    IF previousWeek # Undefined
    THEN Times100(Over(Minus(OfValue(latestWeek.totalSales),
                             OfValue(previousWeek.totalSales)),
                       OfValue(previousWeek.totalSales)))
    ELSE Times100(Over(OfValue(latestWeek.totalSales), Frac(0, 1)))

\* Revenue growth rate
revenueGrowthRateOf(latestWeek, previousWeek) ==
    IF previousWeek # Undefined
    THEN Times100(Over(Minus(OfValue(latestWeek.totalSales),
                             OfValue(previousWeek.totalSales)),
                       OfValue(previousWeek.totalSales)))
    ELSE Frac(0, 1)

\* Mutant of revenuePerFTEOf: the division is not guarded.
revenuePerFTEOfUnguarded(latestWeek) ==
    Over(OfValue(latestWeek.totalSales), OfValue(latestWeek.fullTimeEquivalent))

\* Efficiency metrics: revenuePerFTE
revenuePerFTEOf(latestWeek) ==
    IF IsPositive(OfValue(latestWeek.fullTimeEquivalent))
    THEN Over(OfValue(latestWeek.totalSales), OfValue(latestWeek.fullTimeEquivalent))
    ELSE Frac(0, 1)

\* Volatility (coefficient of variation for revenue)
volatilityOf(weeklyTrend) ==
    LET length == Frac(Len(weeklyTrend), 1)
        Variance(avgRevenue) ==
            Over(Reduce([i \in 1..Len(weeklyTrend) |->
                            Squared(Minus(OfValue(weeklyTrend[i].totalSales), avgRevenue))],
                        1, Frac(0, 1)),
                 length)
        Volatility(avgRevenue, stdDev) ==
            IF IsPositive(avgRevenue)
            THEN RootTimes(RootTimes(stdDev, avgRevenue.den, avgRevenue.num), 100, 1)
            ELSE Frac(0, 1)
        WithAverage(avgRevenue) == Volatility(avgRevenue, Sqrt(Variance(avgRevenue)))
    IN  WithAverage(Over(Reduce([i \in 1..Len(weeklyTrend) |->
                                    OfValue(weeklyTrend[i].totalSales)],
                                1, Frac(0, 1)),
                         length))

\* calculateInsights() for the sheet displayed: null without a latest week.
calculateInsights(data) ==
    LET Metrics(latestWeek, previousWeek, thirteenWeekAvg) ==
            IF latestWeek = Undefined THEN Null
            ELSE [revenueGrowthRate |-> revenueGrowthRateOf(latestWeek, previousWeek),
                  yoyRevenueChange |-> latestWeek.revenueChangePriorYear,
                  yoyGPChange |-> latestWeek.gpChangePriorYear,
                  yoyAOAChange |-> latestWeek.aoaChangePriorYear,
                  revenuePerFTE |-> revenuePerFTEOf(latestWeek),
                  gpPerFTE |-> latestWeek.associateGPperFTE,
                  vsAvgRevenue |->
                      IF thirteenWeekAvg # Undefined
                      THEN Times100(Over(Minus(OfValue(latestWeek.totalSales),
                                               OfValue(thirteenWeekAvg.totalSales)),
                                         OfValue(thirteenWeekAvg.totalSales)))
                      ELSE Frac(0, 1),
                  vsAvgGP |->
                      IF thirteenWeekAvg # Undefined
                      THEN Times100(Minus(OfValue(latestWeek.grossProfitPercent),
                                          OfValue(thirteenWeekAvg.grossProfitPercent)))
                      ELSE Frac(0, 1),
                  volatility |-> volatilityOf(weeklyTrendOf(data))]
    IN  IF data = Null THEN Null
        ELSE Metrics(latestWeekOf(data), previousWeekOf(data), data.thirteenWeekAverage)

----------------------------------------------------------------------------
(* DashboardPage as a state machine.  The page keeps state of the same     *)
(* names as the Insights page (reports, selectedReport, selectedSheet,     *)
(* currentData) and starts from the same values.                           *)

MaxTrendWeeks == 14

\* The reports collection read by the dashboard: a report whose first sheet
\* has 1, 2, 13 or more weekly records with small sales figures and
\* prior-year changes that differ from record to record, with or without
\* 13-week average and YTD record, and a newer report of one sheet.
DashboardReports ==
    LET Row(sales, fte, i) ==
            [InsightRow(Week1, sales, Milli(300), Num(10))
                EXCEPT ![31] = fte, ![7] = Milli(10 * i), ![11] = Milli(10 * i + 1),
                       ![13] = Milli(0 - (10 * i + 2))]
        Record(sales, fte) == parseRow(Row(sales, fte, 0))
        Trend(n, x, y, z, fte) ==
            [i \in 1..n |-> IF i = 1 THEN parseRow(Row(x, fte, i))
                            ELSE IF i = n THEN parseRow(Row(z, Num(4), i))
                            ELSE parseRow(Row(y, Num(4), i))]
    IN  {<<[id |-> "r2",
            parsedData |-> <<InsightSheet(1, <<<<Num(2), Milli(300), Num(10)>>>>,
                                          TRUE, TRUE)>>],
           [id |-> "r1",
            parsedData |-> <<[sheetName |-> SheetName(1),
                              weeklyData |-> Trend(n, x, y, z, fte),
                              thirteenWeekAverage |-> avg,
                              ytdData |-> ytd],
                             InsightSheet(2, <<<<Num(1), Milli(300), Num(10)>>,
                                              <<Num(2), Milli(300), Num(10)>>>>,
                                          FALSE, TRUE)>>]>> :
            n \in {1, 2, 13, MaxTrendWeeks},
            x \in {Zero, Num(1), Num(2), Num(-3)},
            y \in {Zero, Num(1), Num(2)},
            z \in {Num(1), Num(2)},
            fte \in {Zero, Num(4), Num(-2)},
            avg \in {Undefined, Record(Zero, Zero), Record(Num(2), Num(4))},
            ytd \in {Undefined, Record(Num(50), Num(4))}}

\* The effects on [selectedReport, reports, permissions] and on
\* [selectedSheet, selectedReport, reports]: without a selected sheet the
\* first allowed sheet of the report is selected and displayed; then the
\* sheet of the selected name, when the report has one, is displayed.
DashboardEffects(reps, report, sheetName) ==
    LET data == ParsedDataOf(reps, report)
        allowedSheets == SelectSeq(data, LAMBDA sheet : MayAccess(permissions, sheet.sheetName))
        Display(name, shown) ==
            LET found == {k \in 1..Len(data) : data[k].sheetName = name}
            IN  /\ selectedSheet' = name
                /\ currentData' =
                      IF report # "" /\ name # EmptyString /\ found # {}
                      THEN data[CHOOSE k \in found : \A m \in found : k <= m]
                      ELSE shown
    IN  IF report # "" /\ reps # <<>> /\ allowedSheets # <<>> /\ sheetName = EmptyString
        THEN Display(allowedSheets[1].sheetName, allowedSheets[1])
        ELSE Display(sheetName, currentData)

\* loadReports of the dashboard
DashboardLoadReports ==
    /\ reports = <<>>
    /\ firestoreReports # <<>>
    /\ reports' = Take(firestoreReports, ReportLimit)
    /\ selectedReport' = firestoreReports[1].id
    /\ DashboardEffects(reports', selectedReport', selectedSheet)
    /\ UNCHANGED <<extractorVars, appVars, firestoreReports, permissions, autoInsights>>

\* The user picks a report in the report selector of the dashboard.
DashboardSelectReport(id) ==
    /\ \E k \in 1..Len(reports) : reports[k].id = id
    /\ selectedReport' = id
    /\ DashboardEffects(reports, id, selectedSheet)
    /\ UNCHANGED <<extractorVars, appVars, firestoreReports, permissions, reports, autoInsights>>

\* The user picks a sheet in the sheet selector of the dashboard.
DashboardSelectSheet(name) ==
    /\ name \in AvailableSheetNames
    /\ DashboardEffects(reports, selectedReport, name)
    /\ UNCHANGED <<extractorVars, appVars, firestoreReports, permissions, reports,
                   selectedReport, autoInsights>>

InitDashboard ==
    /\ calls = <<>>
    /\ clock = 0
    /\ firestoreReports \in DashboardReports
    /\ permissions \in PermissionsOfUsers
    /\ InsightsPageMounted
    /\ OtherPages

NextDashboard ==
    \/ DashboardLoadReports
    \/ \E id \in {"r1", "r2"} : DashboardSelectReport(id)
    \/ \E name \in {SheetName(1), SheetName(2)} : DashboardSelectSheet(name)

SpecDashboard == InitDashboard /\ [][NextDashboard]_vars

----------------------------------------------------------------------------
(* Properties of calculateInsights *)

\* const insights = calculateInsights(), for the sheet displayed
insights == calculateInsights(currentData)

\* A derived metric that is a number, neither NaN nor infinite.
IsFiniteMetric(m) == m.k \in {"finite", "root"}
NoMetric == Frac(0, 1)

\* C17: every derived scalar metric is guarded against a division by zero:
\* it is a finite number, and it is 0 when its denominator is 0 (the sales
\* of the previous week for revenueGrowthRate, the sales of the 13-week
\* average for vsAvgRevenue, fullTimeEquivalent for revenuePerFTE).
C17_DerivedMetricsGuardedAgainstZero ==
    insights # Null =>
        /\ IsFiniteMetric(insights.revenueGrowthRate)
        /\ IsFiniteMetric(insights.vsAvgRevenue)
        /\ IsFiniteMetric(insights.revenuePerFTE)
        /\ IsFiniteMetric(insights.volatility)
        /\ (Len(currentData.weeklyData) >= 2 /\ currentData.weeklyData[2].totalSales = Zero)
                => insights.revenueGrowthRate = NoMetric
        /\ (currentData.thirteenWeekAverage # Undefined
                /\ currentData.thirteenWeekAverage.totalSales = Zero)
                => insights.vsAvgRevenue = NoMetric
        /\ currentData.weeklyData[1].fullTimeEquivalent = Zero
                => insights.revenuePerFTE = NoMetric

\* C18: with one weekly record revenueGrowthRate is 0; without a 13-week
\* average vsAvgRevenue and vsAvgGP are 0; the metrics are the same without
\* the YTD record and with another one.
C18_AbsentInputsGiveZero ==
    insights # Null =>
        /\ Len(currentData.weeklyData) = 1 => insights.revenueGrowthRate = NoMetric
        /\ currentData.thirteenWeekAverage = Undefined
                => insights.vsAvgRevenue = NoMetric /\ insights.vsAvgGP = NoMetric
        /\ calculateInsights([currentData EXCEPT !.ytdData = Undefined]) = insights
        /\ calculateInsights([currentData EXCEPT !.ytdData = currentData.weeklyData[1]])
                = insights

\* A sheet with one weekly record with sales, a YTD record and no 13-week
\* average is displayed.
C18_Witness ==
    /\ insights # Null
    /\ Len(currentData.weeklyData) = 1
    /\ currentData.weeklyData[1].totalSales = Num(2)
    /\ currentData.thirteenWeekAverage = Undefined
    /\ currentData.ytdData # Undefined
    /\ insights.revenueGrowthRate = NoMetric
    /\ insights.vsAvgRevenue = NoMetric

\* The sales, in whole units, of the first 13 weekly records displayed (of
\* all when there are fewer).
TrendSales ==
    [i \in 1..(IF Len(currentData.weeklyData) < 13 THEN Len(currentData.weeklyData) ELSE 13) |->
        currentData.weeklyData[i].totalSales.n \div 1000]

RECURSIVE SumOf(_)
SumOf(xs) == IF xs = <<>> THEN 0 ELSE Head(xs) + SumOf(Tail(xs))

\* The coefficient of variation, in percent and in absolute value, of m
\* numbers with sum s (not 0) and sum of squares q: the root of
\* 10000 (m q - s s) / (s s).
VariationOf(m, s, q) ==
    IF m * q = s * s THEN NoMetric
    ELSE [Frac(10000 * (m * q - s * s), s * s) EXCEPT !.k = "root"]

TrendVariation ==
    VariationOf(Len(TrendSales), SumOf(TrendSales),
                SumOf([i \in 1..Len(TrendSales) |-> TrendSales[i] * TrendSales[i]]))

\* C19 as stated: volatility is the coefficient of variation of the sales of
\* the first 13 weekly records, and 0 when their mean is 0.
C19_VolatilityIsVariation ==
    insights # Null =>
        insights.volatility = IF SumOf(TrendSales) = 0 THEN NoMetric ELSE TrendVariation

\* C19 amended: volatility is the coefficient of variation of the sales of
\* the first 13 weekly records when their mean is greater than 0, and 0 when
\* their mean is 0 or less; so it is 0 when the sales are all equal.
C19_VolatilityIsVariationAbovePositiveMean ==
    insights # Null =>
        /\ insights.volatility =
                IF SumOf(TrendSales) <= 0 THEN NoMetric ELSE TrendVariation
        /\ (\A i \in 1..Len(TrendSales) : TrendSales[i] = TrendSales[1])
                => insights.volatility = NoMetric

\* A sheet with 14 weekly records is displayed whose 14th has other sales
\* than the 13 before it, and the volatility is not 0.
C19_Witness ==
    /\ insights # Null
    /\ Len(currentData.weeklyData) = 14
    /\ currentData.weeklyData[14].totalSales # currentData.weeklyData[13].totalSales
    /\ SumOf(TrendSales) > 0
    /\ insights.volatility = TrendVariation
    /\ insights.volatility # NoMetric

\* latest.totalSales / latest.fullTimeEquivalent as a fraction of whole
\* numbers, for a fullTimeEquivalent that is not 0.
SalesPerFTE ==
    LET sales == currentData.weeklyData[1].totalSales.n \div 1000
        fte == currentData.weeklyData[1].fullTimeEquivalent.n \div 1000
    IN  IF fte > 0 THEN Frac(sales, fte) ELSE Frac(-sales, -fte)

\* C20 as stated: revenuePerFTE is latest.totalSales /
\* latest.fullTimeEquivalent when fullTimeEquivalent is not 0, and 0 when
\* it is 0.
C20_RevenuePerFTEUnlessZero ==
    insights # Null =>
        insights.revenuePerFTE =
            IF currentData.weeklyData[1].fullTimeEquivalent.n # 0 THEN SalesPerFTE
            ELSE NoMetric

\* C20 amended: revenuePerFTE is latest.totalSales /
\* latest.fullTimeEquivalent when fullTimeEquivalent is greater than 0, and
\* 0 when it is 0 or less.
C20_RevenuePerFTEWhenPositive ==
    insights # Null =>
        insights.revenuePerFTE =
            IF currentData.weeklyData[1].fullTimeEquivalent.n > 0 THEN SalesPerFTE
            ELSE NoMetric

\* Sales of 2 with a fullTimeEquivalent of 4 are displayed: revenuePerFTE
\* is 1/2.
C20_Witness ==
    /\ insights # Null
    /\ currentData.weeklyData[1].totalSales = Num(2)
    /\ currentData.weeklyData[1].fullTimeEquivalent = Num(4)
    /\ insights.revenuePerFTE = Frac(1, 2)

\* C21: yoyRevenueChange, yoyGPChange and yoyAOAChange are the latest
\* record's revenueChangePriorYear, gpChangePriorYear and aoaChangePriorYear,
\* whatever the other records and fields of the sheet are.
C21_YoYPassedThrough ==
    insights # Null =>
        /\ insights.yoyRevenueChange = currentData.weeklyData[1].revenueChangePriorYear
        /\ insights.yoyGPChange = currentData.weeklyData[1].gpChangePriorYear
        /\ insights.yoyAOAChange = currentData.weeklyData[1].aoaChangePriorYear

\* A sheet is displayed whose latest and previous records differ in all
\* three prior-year changes, and the metrics are those of the latest one.
C21_Witness ==
    /\ insights # Null
    /\ Len(currentData.weeklyData) >= 2
    /\ currentData.weeklyData[1].revenueChangePriorYear = Milli(11)
    /\ currentData.weeklyData[2].revenueChangePriorYear = Milli(21)
    /\ currentData.weeklyData[1].gpChangePriorYear # currentData.weeklyData[2].gpChangePriorYear
    /\ currentData.weeklyData[1].aoaChangePriorYear # currentData.weeklyData[2].aoaChangePriorYear
    /\ insights.yoyRevenueChange = Milli(11)
    /\ insights.yoyGPChange = Milli(-12)
    /\ insights.yoyAOAChange = Milli(10)

----------------------------------------------------------------------------
(* Division by zero in generateAutoInsights *)

\* The change a finding of the metric reports, computed from the two latest
\* records of the sheet displayed.
MagnitudeOf(metric) ==
    LET latest(f) == OfValue(currentData.weeklyData[1][f])
        previous(f) == OfValue(currentData.weeklyData[2][f])
        Change(now, before) == Times100(Over(Minus(now, before), before))
    IN  CASE metric = "Revenue" -> Change(latest("totalSales"), previous("totalSales"))
          [] metric = "GP%" ->
                Times100(Minus(latest("grossProfitPercent"), previous("grossProfitPercent")))
          [] metric = "AOA" ->
                Minus(latest("associatesOnAssignment"), previous("associatesOnAssignment"))
          [] OTHER ->
                Change(Over(latest("totalSales"), latest("associatesOnAssignment")),
                       Over(previous("totalSales"), previous("associatesOnAssignment")))

\* C27: no finding comes from a division by zero: no revenue finding when
\* the previous sales are 0, no productivity finding when the head count of
\* either week is 0, and no finding with an infinite or NaN magnitude.
C27_NoFindingFromDivisionByZero ==
    TwoWeeks =>
        /\ PreviousWhole("totalSales") = 0 => TypesOf("Revenue") = <<>>
        /\ (LatestWhole("associatesOnAssignment") = 0
                \/ PreviousWhole("associatesOnAssignment") = 0)
               => TypesOf("Rev/AOA") = <<>>
        /\ \A i \in 1..Len(autoInsights) :
               MagnitudeOf(autoInsights[i].metric).k = "finite"

----------------------------------------------------------------------------
(* UploadPage: handleFileChange and handleUpload.  A handleUpload call is  *)
(* an asynchronous function: run holds the await it is suspended at, the   *)
(* file of its closure and its locals, and keeps them when it has ended.   *)

\* err instanceof Error ? err.message : 'Failed to upload file', for the
\* errors of the model, which are all Error objects: the message is named
\* by the kind and the text of the error.
MessageOf(err) == [t |-> "string", k |-> err.k, n |-> 0, s |-> err.s]

\* 'File uploaded but metadata save failed. Please contact support.'
MetadataSaveFailed == Str(<<"m", "e", "t", "a", "d", "a", "t", "a">>)

\* The errors uploadBytes and addDoc reject with.
StorageError == [t |-> "throw", k |-> "StorageError", n |-> 0, s |-> <<"s", "t", "o", "r", "a", "g", "e">>]
FirestoreError == [t |-> "throw", k |-> "FirestoreError", n |-> 0, s |-> <<"f", "i", "r", "e", "s", "t", "o", "r", "e">>]

\* handleFileChange with a file chosen in the file input.
handleFileChange(selected) ==
    /\ selectedFile' = selected
    /\ uploadError' = Null
    /\ success' = FALSE
    /\ parsedData' = Null
    /\ UNCHANGED <<extractorVars, insightsVars, renderedTrend, authVars, uploading, run, storage>>

\* The Remove button, shown for a file while nothing is uploading.
RemoveFile ==
    /\ selectedFile # Null
    /\ ~uploading
    /\ selectedFile' = Null
    /\ parsedData' = Null
    /\ UNCHANGED <<extractorVars, insightsVars, renderedTrend, authVars, uploading, success,
                   uploadError, run, storage>>

\* Mutant of UploadCatch: the message of the error is shown wherever it was
\* thrown.
UploadCatchMessageOnly(err) ==
    /\ uploadError' = MessageOf(err)
    /\ uploading' = FALSE
    /\ run' = [run EXCEPT !.pc = "done"]

\* The catch and finally blocks of handleUpload for an error thrown at the
\* position of the run.
UploadCatch(err) ==
    /\ uploadError' =
          IF run.storageUploadComplete THEN MetadataSaveFailed ELSE MessageOf(err)
    /\ uploading' = FALSE
    /\ run' = [run EXCEPT !.pc = "done"]

MaxUploads == 2

\* handleUpload, called by the Upload button (enabled with a file while
\* nothing is uploading), up to its first await: parseWeeklyReport(file).
handleUpload ==
    /\ selectedFile # Null
    /\ ~uploading
    /\ Len(calls) < MaxUploads
    /\ uploading' = TRUE
    /\ uploadError' = Null
    /\ success' = FALSE
    /\ calls' = Append(calls, NewCall(selectedFile))
    /\ run' = [pc |-> "parseWeeklyReport", file |-> selectedFile, call |-> Len(calls) + 1,
               parsed |-> Null, storageUploadComplete |-> FALSE,
               firestoreUploadComplete |-> FALSE, fullPath |-> <<>>, downloadURL |-> <<>>]
    /\ UNCHANGED <<clock, insightsVars, renderedTrend, authVars, selectedFile, parsedData, storage>>

\* Mutant of UploadParsed: a failed extraction is taken for a report
\* without sheets and the upload goes on.
UploadParsedAnyway ==
    /\ run # Null
    /\ run.pc = "parseWeeklyReport"
    /\ calls[run.call].promise.state # "pending"
    /\ parsedData' =
          IF calls[run.call].promise.state = "fulfilled" THEN calls[run.call].promise.value
          ELSE [fileName |-> run.file.name, weekNumber |-> Unknown, uploadDate |-> clock,
                sheets |-> <<>>]
    /\ run' = [run EXCEPT !.pc = "uploadBytes", !.parsed = parsedData',
                          !.fullPath = <<"reports", clock, run.file.name>>]
    /\ UNCHANGED <<extractorVars, insightsVars, renderedTrend, authVars, selectedFile, success,
                   storage, uploadError, uploading>>

\* await parseWeeklyReport(file) returns or throws once the promise of the
\* call is settled; then the storage reference is made from Date.now() and
\* the file name, and uploadBytes is awaited.
UploadParsed ==
    /\ run # Null
    /\ run.pc = "parseWeeklyReport"
    /\ calls[run.call].promise.state # "pending"
    /\ IF calls[run.call].promise.state = "fulfilled"
       THEN /\ parsedData' = calls[run.call].promise.value
            /\ run' = [run EXCEPT !.pc = "uploadBytes",
                                  !.parsed = calls[run.call].promise.value,
                                  !.fullPath = <<"reports", clock, run.file.name>>]
            /\ UNCHANGED <<uploadError, uploading>>
       ELSE /\ UploadCatch(calls[run.call].promise.value)
            /\ UNCHANGED parsedData
    /\ UNCHANGED <<extractorVars, insightsVars, renderedTrend, authVars, selectedFile, success,
                   storage>>

\* await uploadBytes(storageRef, file) returns, the object stored, or throws.
UploadBytesSettled(stored) ==
    /\ run # Null
    /\ run.pc = "uploadBytes"
    /\ IF stored
       THEN /\ storage' = Append(storage, [fullPath |-> run.fullPath, file |-> run.file])
            /\ run' = [run EXCEPT !.pc = "getDownloadURL", !.storageUploadComplete = TRUE]
            /\ UNCHANGED <<uploadError, uploading>>
       ELSE /\ UploadCatch(StorageError)
            /\ UNCHANGED storage
    /\ UNCHANGED <<extractorVars, insightsVars, renderedTrend, authVars, selectedFile, success,
                   parsedData>>

\* await getDownloadURL(storageRef) returns the URL, or throws and the URL
\* is made from the bucket and the path; then addDoc is awaited.
GetDownloadURLSettled(retrieved) ==
    /\ run # Null
    /\ run.pc = "getDownloadURL"
    /\ run' = [run EXCEPT !.pc = "addDoc",
                          !.downloadURL = <<IF retrieved THEN "token" ELSE "alt=media">>
                                          \o run.fullPath]
    /\ UNCHANGED <<extractorVars, insightsVars, renderedTrend, authVars, selectedFile, uploading,
                   success, uploadError, parsedData, storage>>

\* await addDoc(collection(db, 'reports'), {...}) returns, the document
\* written, or throws; then the success is shown and the file forgotten.
AddDocSettled(written) ==
    /\ run # Null
    /\ run.pc = "addDoc"
    /\ IF written
       THEN /\ firestoreReports' =
                  <<[id |-> Len(firestoreReports) + 1,
                     fileName |-> run.parsed.fileName,
                     weekNumber |-> run.parsed.weekNumber,
                     uploadDate |-> run.parsed.uploadDate,
                     uploadedBy |-> IF permissions # Null /\ permissions.email # <<>>
                                    THEN permissions.email ELSE <<"s", "y", "s", "t", "e", "m">>,
                     fileUrl |-> run.downloadURL,
                     sheets |-> [i \in 1..Len(run.parsed.sheets) |->
                                    [sheetName |-> run.parsed.sheets[i].sheetName,
                                     weekCount |-> Len(run.parsed.sheets[i].weeklyData),
                                     hasYTD |-> run.parsed.sheets[i].ytdData # Undefined,
                                     has13WeekAvg |->
                                         run.parsed.sheets[i].thirteenWeekAverage # Undefined]],
                     parsedData |-> run.parsed.sheets]>> \o firestoreReports
            /\ run' = [run EXCEPT !.pc = "done", !.firestoreUploadComplete = TRUE]
            /\ success' = TRUE
            /\ selectedFile' = Null
            /\ parsedData' = Null
            /\ uploading' = FALSE
            /\ UNCHANGED uploadError
       ELSE /\ UploadCatch(FirestoreError)
            /\ UNCHANGED <<firestoreReports, success, selectedFile, parsedData>>
    /\ UNCHANGED <<extractorVars, permissions, reports, selectedReport, selectedSheet,
                   currentData, autoInsights, renderedTrend, authVars, storage>>

\* The files chosen in the file input: one that cannot be decoded and one
\* of two sheets.
UploadFiles == {f \in ConcurrentFiles : f.name = NameWeek37}

\* The Upload page of an administrator over empty collections.
InitUpload ==
    /\ calls = <<>>
    /\ clock = 0
    /\ firestoreReports = <<>>
    /\ permissions = [role |-> "admin", allowedSheets |-> <<>>, email |-> <<"r">>,
                      displayName |-> <<"R">>]
    /\ InsightsPageMounted
    /\ OtherPages

NextUpload ==
    \/ \E selected \in UploadFiles : handleFileChange(selected)
    \/ RemoveFile
    \/ handleUpload
    \/ \E c \in 1..Len(calls) : ReaderOnLoad(c)
    \/ \E c \in 1..Len(calls) : ReaderOnError(c)
    \/ UploadParsed
    \/ \E stored \in BOOLEAN : UploadBytesSettled(stored)
    \/ \E retrieved \in BOOLEAN : GetDownloadURLSettled(retrieved)
    \/ \E written \in BOOLEAN : AddDocSettled(written)

SpecUpload == InitUpload /\ [][NextUpload]_vars

\* The system steps of an upload: the FileReader events and the awaited
\* calls returning or throwing.  Each is taken when it stays possible.
SpecUploadFair ==
    /\ SpecUpload
    /\ WF_vars(\/ \E c \in 1..Len(calls) : ReaderOnError(c) \/ ReaderOnLoad(c)
               \/ UploadParsed
               \/ \E stored \in BOOLEAN : UploadBytesSettled(stored)
               \/ \E retrieved \in BOOLEAN : GetDownloadURLSettled(retrieved)
               \/ \E written \in BOOLEAN : AddDocSettled(written))

----------------------------------------------------------------------------
(* Properties of handleUpload *)

\* The handleUpload call is suspended at an await.
RunInProgress == run # Null /\ run.pc # "done"

\* The promise of the parseWeeklyReport call of the run.
ParseOfRun == calls[run.call].promise

\* C26: the steps are in the order parse, Storage upload, Firestore write:
\* a step writes an object to Storage only in a run whose extraction
\* resolved, and a report document only in a run whose extraction resolved
\* and whose object is in Storage, the document holding the sheets
\* extracted; a run whose extraction failed ends at that point with the
\* message of the error shown and without any write, and has written
\* nothing.
C26_ParseThenStorageThenFirestore ==
    /\ [](run # Null /\ ParseOfRun.state = "rejected" =>
            ~run.storageUploadComplete /\ ~run.firestoreUploadComplete)
    /\ [](Len(firestoreReports) <= Len(storage))
    /\ [][/\ storage' # storage =>
                /\ RunInProgress
                /\ ParseOfRun.state = "fulfilled"
                /\ firestoreReports' = firestoreReports
          /\ firestoreReports' # firestoreReports =>
                /\ RunInProgress
                /\ ParseOfRun.state = "fulfilled"
                /\ run.storageUploadComplete
                /\ \E k \in 1..Len(storage) :
                      storage[k] = [fullPath |-> run.fullPath, file |-> run.file]
                /\ storage' = storage
                /\ Len(firestoreReports') = Len(firestoreReports) + 1
                /\ firestoreReports'[1].parsedData = ParseOfRun.value.sheets
          /\ (RunInProgress /\ ParseOfRun.state = "rejected" /\ run' # run) =>
                /\ run'.pc = "done"
                /\ storage' = storage
                /\ firestoreReports' = firestoreReports
                /\ uploadError' = MessageOf(ParseOfRun.value)
                /\ ~success']_vars

\* After an upload whose extraction failed, a second upload has gone through
\* the three steps: one object is stored and one document written.
C26_Witness ==
    /\ Len(calls) = 2
    /\ calls[1].promise.state = "rejected"
    /\ calls[2].promise.state = "fulfilled"
    /\ run.pc = "done"
    /\ run.firestoreUploadComplete
    /\ Len(storage) = 1
    /\ Len(firestoreReports) = 1
    /\ firestoreReports[1].parsedData = calls[2].promise.value.sheets

----------------------------------------------------------------------------
(* AuthProvider, LoginPage.handleSignIn and AdminPage.handleAddUser.  The  *)
(* AuthProvider and the login page are those of one browser; the Add User  *)
(* dialogs are those of the admin sessions, in other browsers.             *)

\* String.prototype.toLowerCase
toLowerCase(chars) ==
    [i \in 1..Len(chars) |->
        IF \E k \in 1..Len(UpperCase) : UpperCase[k] = chars[i]
        THEN LowerCase[CHOOSE k \in 1..Len(UpperCase) : UpperCase[k] = chars[i]]
        ELSE chars[i]]

\* String.prototype.trim
RECURSIVE trim(_)
trim(chars) ==
    IF chars = <<>> THEN <<>>
    ELSE IF chars[1] \in WhiteSpace THEN trim(Drop(chars, 1))
    ELSE IF chars[Len(chars)] \in WhiteSpace THEN trim(Take(chars, Len(chars) - 1))
    ELSE chars

\* query(usersRef, where('email', '==', email)): the documents of the
\* snapshot, in the order of the collection.
UsersWithEmail(address) == SelectSeq(users, LAMBDA d : d.email = address)

\* The messages of the login page and of the Add User dialog.
PleaseEnterEmail == Str(<<"e", "n", "t", "e", "r">>)
EmailNotFound == Str(<<"n", "o", "t", " ", "f", "o", "u", "n", "d">>)
FieldsRequired == Str(<<"r", "e", "q", "u", "i", "r", "e", "d">>)
AlreadyExists == Str(<<"e", "x", "i", "s", "t", "s">>)
FailedToAddUser == Str(<<"f", "a", "i", "l", "e", "d">>)

\* The page is loaded: the AuthProvider is constructed and its effect reads
\* the saved email, sets the user from it and starts loadPermissions; the
\* login page starts from its initial state.  A loadPermissions call of the
\* page before is forgotten.
LoadPage ==
    /\ user' = IF userEmail # Null THEN [email |-> userEmail] ELSE Null
    /\ permissions' = Null
    /\ authLoading' = (userEmail # Null)
    /\ lookup' = IF userEmail # Null THEN [of |-> "effect", email |-> userEmail] ELSE Null
    /\ loginEmail' = <<>>
    /\ loginError' = EmptyString
    /\ consoleErrors' = {}
    /\ UNCHANGED <<extractorVars, firestoreReports, reports, selectedReport, selectedSheet,
                   currentData, autoInsights, renderedTrend, uploadVars, users, userEmail,
                   addUser>>

\* handleSignIn of the login page, shown while no user is set, with the
\* email typed: up to the await of loadPermissions in signIn.
handleSignIn(typed) ==
    /\ ~authLoading
    /\ user = Null
    /\ lookup = Null
    /\ loginEmail' = typed
    /\ IF trim(typed) = <<>>
       THEN /\ loginError' = PleaseEnterEmail
            /\ UNCHANGED lookup
       ELSE /\ loginError' = EmptyString
            /\ lookup' = [of |-> "signIn", email |-> toLowerCase(trim(typed))]
    /\ UNCHANGED <<extractorVars, insightsVars, renderedTrend, uploadVars, users, user,
                   authLoading, userEmail, consoleErrors, addUser>>

\* await getDocs(q) of loadPermissions returns a snapshot or throws, and
\* the caller goes on: the effect ends the loading; signIn sets the user and
\* saves the email on success and throws otherwise, and handleSignIn shows
\* the error.
LoadPermissionsSettled(threw) ==
    /\ lookup # Null
    /\ LET found == IF threw THEN <<>> ELSE UsersWithEmail(lookup.email)
           loaded == found # <<>>
           data == found[1]
       IN  /\ permissions' =
                 IF loaded
                 THEN [role |-> IF data.role = "" THEN "user" ELSE data.role,
                       allowedSheets |-> data.allowedSheets,
                       email |-> data.email,
                       displayName |-> IF data.displayName = <<>> THEN lookup.email
                                       ELSE data.displayName]
                 ELSE permissions
           /\ authLoading' = IF lookup.of = "effect" THEN FALSE ELSE authLoading
           /\ user' = IF lookup.of = "signIn" /\ loaded THEN [email |-> lookup.email]
                      ELSE user
           /\ userEmail' = IF lookup.of = "signIn" /\ loaded THEN lookup.email ELSE userEmail
           /\ loginError' = IF lookup.of = "signIn" /\ ~loaded THEN EmailNotFound
                            ELSE loginError
           /\ consoleErrors' =
                 consoleErrors
                 \cup (IF threw THEN {"Error loading permissions:"} ELSE {})
                 \cup (IF lookup.of = "signIn" /\ ~loaded
                       THEN {"Sign in error:", "Login failed:"} ELSE {})
    /\ lookup' = Null
    /\ UNCHANGED <<extractorVars, firestoreReports, reports, selectedReport, selectedSheet,
                   currentData, autoInsights, renderedTrend, uploadVars, users, loginEmail,
                   addUser>>

\* signOut, from the navigation shown to a user
signOut ==
    /\ ~authLoading
    /\ user # Null
    /\ user' = Null
    /\ permissions' = Null
    /\ userEmail' = Null
    /\ UNCHANGED <<extractorVars, firestoreReports, reports, selectedReport, selectedSheet,
                   currentData, autoInsights, renderedTrend, uploadVars, users, authLoading,
                   lookup, loginEmail, loginError, consoleErrors, addUser>>

\* The Add User dialog of an admin session before handleAddUser is called.
AddUserDialog ==
    [pc |-> "idle", newUserEmail |-> <<>>, newUserDisplayName |-> <<>>, errorMessage |-> Null]

\* handleAddUser of admin session a with the email and the display name
\* typed, up to the snapshot of the existing users: an error for an empty
\* field or an existing email, else addDoc is awaited.
handleAddUser(a, typedEmail, typedName) ==
    /\ addUser[a].pc = "idle"
    /\ addUser' =
          [addUser EXCEPT ![a] =
              IF typedEmail = <<>> \/ typedName = <<>>
              THEN [pc |-> "idle", newUserEmail |-> typedEmail,
                    newUserDisplayName |-> typedName, errorMessage |-> FieldsRequired]
              ELSE IF UsersWithEmail(typedEmail) # <<>>
              THEN [pc |-> "idle", newUserEmail |-> typedEmail,
                    newUserDisplayName |-> typedName, errorMessage |-> AlreadyExists]
              ELSE [pc |-> "addDoc", newUserEmail |-> typedEmail,
                    newUserDisplayName |-> typedName, errorMessage |-> Null]]
    /\ UNCHANGED <<extractorVars, insightsVars, renderedTrend, uploadVars, users, user,
                   authLoading, userEmail, lookup, loginEmail, loginError, consoleErrors>>

MaxUsers == 3

\* await addDoc(collection(db, 'users'), {...}) of admin session a returns,
\* the document created and the form reset, or throws.
AddUserSettled(a, created) ==
    /\ addUser[a].pc = "addDoc"
    /\ Len(users) < MaxUsers
    /\ IF created
       THEN /\ users' = Append(users, [email |-> addUser[a].newUserEmail,
                                       displayName |-> addUser[a].newUserDisplayName,
                                       role |-> "user", allowedSheets |-> <<>>])
            /\ addUser' = [addUser EXCEPT ![a] = AddUserDialog]
       ELSE /\ addUser' = [addUser EXCEPT ![a].pc = "idle",
                                          ![a].errorMessage = FailedToAddUser]
            /\ UNCHANGED users
    /\ UNCHANGED <<extractorVars, insightsVars, renderedTrend, uploadVars, user, authLoading,
                   userEmail, lookup, loginEmail, loginError, consoleErrors>>

\* The emails typed in the login page and in the Add User dialog.
TypedEmails == {<<>>, <<"a">>, <<"A">>, <<"b">>}

\* A browser without a session and two admin sessions, over a users
\* collection that holds one administrator.
InitAuth ==
    /\ calls = <<>>
    /\ clock = 0
    /\ firestoreReports = <<>>
    /\ permissions = Null
    /\ InsightsPageMounted
    /\ renderedTrend = <<>>
    /\ UploadPageMounted
    /\ users = <<[email |-> <<"r">>, displayName |-> <<"R">>, role |-> "admin",
                  allowedSheets |-> <<>>]>>
    /\ user = Null
    /\ authLoading = FALSE
    /\ userEmail = Null
    /\ lookup = Null
    /\ loginEmail = <<>>
    /\ loginError = EmptyString
    /\ consoleErrors = {}
    /\ addUser = <<AddUserDialog, AddUserDialog>>

NextAuth ==
    \/ LoadPage
    \/ \E typed \in TypedEmails : handleSignIn(typed)
    \/ \E threw \in BOOLEAN : LoadPermissionsSettled(threw)
    \/ signOut
    \/ \E a \in 1..Len(addUser), typedEmail \in TypedEmails \ {<<"b">>},
          typedName \in {<<>>, <<"n">>} : handleAddUser(a, typedEmail, typedName)
    \/ \E a \in 1..Len(addUser), created \in BOOLEAN : AddUserSettled(a, created)

SpecAuth == InitAuth /\ [][NextAuth]_vars

----------------------------------------------------------------------------
(* Properties of the sign-in and of handleAddUser *)

\* A step in which a loadPermissions call returns (a page load keeps no
\* typed email and no call of the page before), one in which the call of a
\* sign-in returns, and one in which a call fails: it finds no document or
\* throws.
LookupReturns == lookup # Null /\ lookup' = Null /\ loginEmail' = loginEmail
SignInReturns == LookupReturns /\ lookup.of = "signIn"
LookupThrows == "Error loading permissions:" \in consoleErrors' \ consoleErrors
NoLookupThrew == "Error loading permissions:" \notin consoleErrors'
LookupFails == LookupReturns /\ (UsersWithEmail(lookup.email) = <<>> \/ LookupThrows)

\* C24: a user created through the Add User dialog can log in with their
\* email: when the users collection holds a document with the email typed
\* on the login page and the lookup of the sign-in returns, no lookup
\* having thrown a Firestore error, the sign-in succeeds: user and permissions are set and
\* the email is saved.
C24_AddedUserCanSignIn ==
    [][(SignInReturns /\ NoLookupThrew /\ UsersWithEmail(loginEmail) # <<>>) =>
          /\ user' # Null
          /\ permissions' # Null
          /\ userEmail' # Null
          /\ loginError' = EmptyString]_vars

\* C25: whenever the authenticated area is rendered (loading is false and
\* user is set) the permissions are those found for the email of the user;
\* a failed lookup leaves user null and saves no email.
C25_OnlyRegisteredEmails ==
    /\ []((~authLoading /\ user # Null) =>
            (permissions # Null /\ permissions.email = user.email))
    /\ [][LookupFails => (user' = Null /\ userEmail' = userEmail)]_vars

\* C29: no two documents of the users collection have the same email, also
\* with two admin sessions; a handleAddUser call with an empty email or
\* display name or with the email of an existing document sets an error
\* message and writes nothing.
C29_NoDuplicateUserEmails ==
    /\ [](\A i, j \in 1..Len(users) : users[i].email = users[j].email => i = j)
    /\ [][\A a \in 1..Len(addUser) :
            (/\ addUser[a].pc = "idle"
             /\ addUser'[a] # addUser[a]
             /\ \/ addUser'[a].newUserEmail = <<>>
                \/ addUser'[a].newUserDisplayName = <<>>
                \/ UsersWithEmail(addUser'[a].newUserEmail) # <<>>) =>
                /\ addUser'[a].pc = "idle"
                /\ addUser'[a].errorMessage # Null
                /\ users' = users]_vars

----------------------------------------------------------------------------
(* The render of DashboardPage.  React renders the page after the state   *)
(* updates of every handler and effect; the render reads currentData,      *)
(* which is the sheet object held by reports, and prepares the metrics and *)
(* the chart data.                                                         *)

\* Mutant of weeklyTrendData: the weekly records are reversed without
\* being copied.
weeklyTrendDataInPlace(weeklyData) ==
    LET reversed == [i \in 1..Len(weeklyData) |-> weeklyData[Len(weeklyData) + 1 - i]]
    IN  [weeklyData |-> reversed,
         chart |-> [i \in 1..Len(reversed) |->
                       [revenue |-> reversed[i].totalSales,
                        aoa |-> reversed[i].associatesOnAssignment]]]

\* currentData?.weeklyData.slice(0, 13).reverse().map(week => ({...})):
\* slice copies the first 13 records, reverse reverses the copy in place,
\* map builds the chart rows (revenue and aoa of them); weeklyData is the
\* receiver after the calls.
weeklyTrendData(weeklyData) ==
    LET copy == Take(weeklyData, 13)
        reversed == [i \in 1..Len(copy) |-> copy[Len(copy) + 1 - i]]
    IN  [weeklyData |-> weeklyData,
         chart |-> [i \in 1..Len(reversed) |->
                       [revenue |-> reversed[i].totalSales,
                        aoa |-> reversed[i].associatesOnAssignment]]]

\* The sheet objects of reps that are the object shown, after its weekly
\* records have become weeklyData.
WithWeeklyData(reps, shown, weeklyData) ==
    [r \in 1..Len(reps) |->
        [reps[r] EXCEPT !.parsedData =
            [k \in 1..Len(reps[r].parsedData) |->
                IF reps[r].id = selectedReport /\ reps[r].parsedData[k] = shown
                THEN [shown EXCEPT !.weeklyData = weeklyData]
                ELSE reps[r].parsedData[k]]]]

\* A render of the dashboard with a sheet shown: calculateInsights() and
\* weeklyTrendData are evaluated.
DashboardRender ==
    /\ currentData # Null
    /\ calculateInsights(currentData) # Null
    /\ LET prepared == weeklyTrendData(currentData.weeklyData)
       IN  /\ renderedTrend' = prepared.chart
           /\ currentData' = [currentData EXCEPT !.weeklyData = prepared.weeklyData]
           /\ reports' = WithWeeklyData(reports, currentData, prepared.weeklyData)
    /\ UNCHANGED <<extractorVars, firestoreReports, permissions, selectedReport, selectedSheet,
                   autoInsights, uploadVars, authVars>>

\* The dashboard of an administrator over the reports whose first sheet
\* has full-time equivalents and both benchmark records.
InitRender ==
    /\ InitDashboard
    /\ permissions # Null
    /\ permissions.role = "admin"
    /\ LET sheet == firestoreReports[2].parsedData[1]
       IN  /\ sheet.thirteenWeekAverage # Undefined
           /\ sheet.ytdData # Undefined
           /\ sheet.weeklyData[1].fullTimeEquivalent = Num(4)

NextRender ==
    \/ NextDashboard
    \/ DashboardRender

SpecRender == InitRender /\ [][NextRender]_vars

\* The sheets held by the reports of the page
SheetsOfReports ==
    UNION {{reports[r].parsedData[k] : k \in 1..Len(reports[r].parsedData)} :
              r \in 1..Len(reports)}

\* C22: the analysis never mutates its input: the reports of the page stay
\* the reports read from the collection, with the weekly records in the
\* same order and the same average and YTD records, the sheet shown is one
\* of their sheets, and while the selection stays the same the sheet shown
\* and the metrics calculated from it stay the same.
C22_InputNeverMutated ==
    /\ [](reports \in {<<>>, Take(firestoreReports, ReportLimit)})
    /\ [](currentData # Null => currentData \in SheetsOfReports)
    /\ [][(currentData # Null /\ selectedReport' = selectedReport
                              /\ selectedSheet' = selectedSheet) =>
            /\ currentData' = currentData
            /\ calculateInsights(currentData') = calculateInsights(currentData)]_vars

\* C22 witness: a sheet of more than 13 weekly records whose latest and 13th sales
\* differ has been rendered: the trend holds 13 rows, oldest first.
C22_Witness ==
    /\ currentData # Null
    /\ Len(currentData.weeklyData) > 13
    /\ currentData.weeklyData[1].totalSales # currentData.weeklyData[13].totalSales
    /\ Len(renderedTrend) = 13
    /\ renderedTrend[13].revenue = currentData.weeklyData[1].totalSales
    /\ renderedTrend[1].revenue = currentData.weeklyData[13].totalSales

----------------------------------------------------------------------------
(* Properties of the report and sheet selection *)

\* C28: the sheet data shown, and the findings shown with it, are those of
\* the sheet named selectedSheet of the report selectedReport; data of a
\* report selected before is never shown while another report is selected.
C28_ShownIsTheSelection ==
    currentData # Null =>
        LET data == ParsedDataOf(reports, selectedReport)
        IN  /\ \E k \in 1..Len(data) :
                  data[k].sheetName = selectedSheet /\ data[k] = currentData
            /\ autoInsights = generateAutoInsights(currentData)

----------------------------------------------------------------------------
(* The permissions of the session while the pages are shown.  They are    *)
(* loaded at sign-in and at page load, and once more by                    *)
(* refreshPermissions, which AdminPage.handleUpdateUserRole awaits last.   *)

\* handleUpdateUserRole of the admin page for the users document i, up to
\* the await of getDocs in refreshPermissions: updateDoc has set the role
\* (or has thrown: nothing more happens) and loadData has read the lists
\* of the admin page.  The dashboard is not shown while the admin page is.
handleUpdateUserRole(i, newRole, updated) ==
    /\ permissions # Null
    /\ permissions.role = "admin"
    /\ user # Null
    /\ lookup = Null
    /\ reports = <<>>
    /\ i \in 1..Len(users)
    /\ IF updated
       THEN /\ users' = [users EXCEPT ![i].role = newRole]
            /\ lookup' = [of |-> "refreshPermissions", email |-> user.email]
       ELSE UNCHANGED <<users, lookup>>
    /\ UNCHANGED <<extractorVars, insightsVars, renderedTrend, uploadVars, user, authLoading,
                   userEmail, loginEmail, loginError, consoleErrors, addUser>>

\* An administrator who is allowed one sheet by name is signed in; the
\* reports are those of the dashboard without benchmark records.
InitPermissions ==
    /\ calls = <<>>
    /\ clock = 0
    /\ firestoreReports \in
          {reps \in DashboardReports :
              /\ reps[2].parsedData[1].thirteenWeekAverage = Undefined
              /\ reps[2].parsedData[1].ytdData = Undefined
              /\ reps[2].parsedData[1].weeklyData[1].fullTimeEquivalent = Num(4)}
    /\ InsightsPageMounted
    /\ renderedTrend = <<>>
    /\ UploadPageMounted
    /\ users = <<[email |-> <<"r">>, displayName |-> <<"R">>, role |-> "admin",
                  allowedSheets |-> <<SheetName(1)>>]>>
    /\ user = [email |-> <<"r">>]
    /\ permissions = [role |-> "admin", allowedSheets |-> <<SheetName(1)>>,
                      email |-> <<"r">>, displayName |-> <<"R">>]
    /\ authLoading = FALSE
    /\ userEmail = <<"r">>
    /\ lookup = Null
    /\ loginEmail = <<>>
    /\ loginError = EmptyString
    /\ consoleErrors = {}
    /\ addUser = <<>>

NextPermissions ==
    \/ NextDashboard
    \/ \E i \in 1..Len(users), newRole \in {"admin", "user"}, updated \in BOOLEAN :
          handleUpdateUserRole(i, newRole, updated)
    \/ \E threw \in BOOLEAN : LoadPermissionsSettled(threw)

SpecPermissions == InitPermissions /\ [][NextPermissions]_vars

\* The names of the sheets of the selected report
SheetNamesOfSelected ==
    {ParsedDataOf(reports, selectedReport)[k].sheetName :
        k \in 1..Len(ParsedDataOf(reports, selectedReport))}

\* C23: in every reachable state of the page, for a user who is not an
\* administrator every sheet offered by the selector and the sheet shown
\* are named in the allowedSheets of the user; an administrator is offered
\* every sheet of the selected report; without permissions no sheet is
\* offered.
C23_SheetPermissionsHold ==
    /\ (permissions # Null /\ permissions.role # "admin") =>
          LET allowed == {permissions.allowedSheets[k] :
                             k \in 1..Len(permissions.allowedSheets)}
          IN  /\ AvailableSheetNames \subseteq allowed
              /\ currentData # Null => currentData.sheetName \in allowed
    /\ (permissions # Null /\ permissions.role = "admin") =>
          AvailableSheetNames = SheetNamesOfSelected
    /\ permissions = Null => AvailableSheetNames = {}

====
